---- MODULE Spec2Model ----
(***************************************************************************)
(* Verification model of the lux_bots decision core: the budgeted A*       *)
(* search over the time-expanded graph variants, the older un-budgeted     *)
(* search, the goal-conflict resolver and the maximal-dig binary search.   *)
(* All costs are integers in hundredths of a power unit (CostScale), since *)
(* the pickup preference of the pickup graph is t / 100.                   *)
(***************************************************************************)
EXTENDS Integers, Sequences, FiniteSets, TLC

\* ------------------------------------------------------------------ bounds

\* Largest expansion budget handed to a search.
MaxBudget == 7

\* Longest action sequence the cost comparisons of C5 and C6 look at.
MaxPathLen == 5

\* Most nodes the older, budget-less search is followed through.
MaxOldPops == 6

\* to_c.t / 100 in PickupPowerGraph.get_cost: costs are kept in hundredths.
CostScale == 100

\* math.inf, the cost of a forbidden destination in the old Graph.cost.
Inf == 100000000

\* ------------------------------------------------------------- coordinates

NoC == [x |-> -1, y |-> -1]

XY(x, y) == [x |-> x, y |-> y]

Abs(i) == IF i < 0 THEN -i ELSE i

Min2(a, b) == IF a < b THEN a ELSE b

Max2(a, b) == IF a < b THEN b ELSE a

SetMin(S) == CHOOSE m \in S : \A o \in S : m <= o

\* Coordinate.distance_to: Manhattan distance.
distance_to(a, b) == Abs(a.x - b.x) + Abs(a.y - b.y)

\* A search node: position, turn, dig count, unit power, resource counter.
Node(x, y, t, d, p, q) == [x |-> x, y |-> y, t |-> t, d |-> d, p |-> p, q |-> q]

\* Direction.value
DirDelta(dir) ==
    CASE dir = "CENTER" -> XY(0, 0)
      [] dir = "UP"     -> XY(0, -1)
      [] dir = "RIGHT"  -> XY(1, 0)
      [] dir = "DOWN"   -> XY(0, 1)
      [] dir = "LEFT"   -> XY(-1, 0)

AllDirs == <<"CENTER", "UP", "RIGHT", "DOWN", "LEFT">>

MoveAction(dir) == [kind |-> "move", dir |-> dir, amount |-> 0]

DigAction == [kind |-> "dig", dir |-> "CENTER", amount |-> 0]

PickupAction(amount) == [kind |-> "pickup", dir |-> "CENTER", amount |-> amount]

TransferAction(dir, amount) == [kind |-> "transfer", dir |-> dir, amount |-> amount]

\* UnitAction.is_stationary
is_stationary(a) == ~(a.kind = "move" /\ a.dir # "CENTER")

\* The tile a move ends on; dig, pickup and transfer leave the unit in place.
unit_direction(a) == IF a.kind = "move" THEN a.dir ELSE "CENTER"

\* TimeCoordinate / DigTimeCoordinate / PowerTimeCoordinate .add_action, n = 1.
add_action(c, a) ==
    LET dl == DirDelta(unit_direction(a))
    IN  Node(c.x + dl.x, c.y + dl.y, c.t + 1,
             IF a.kind = "dig" THEN c.d + 1 ELSE c.d,
             IF a.kind = "pickup" THEN c.p + a.amount ELSE c.p,
             IF a.kind = "pickup" THEN c.q + a.amount
             ELSE IF a.kind = "transfer" THEN c.q - a.amount ELSE c.q)

\* ------------------------------------------------------- board, constraints

\* UnitConfig of the two robot classes (ENV_CFG.ROBOTS), powers in CostScale-ths.
UnitCfg(unit_type) ==
    IF unit_type = "HEAVY"
    THEN [MOVE_COST |-> 20, RUBBLE_NUM |-> 100, DIG_COST |-> 60,
          BATTERY_CAPACITY |-> 3000, CHARGE |-> 10, CARGO_SPACE |-> 1000,
          ACTION_QUEUE_POWER_COST |-> 10]
    ELSE [MOVE_COST |-> 1, RUBBLE_NUM |-> 5, DIG_COST |-> 5,
          BATTERY_CAPACITY |-> 150, CHARGE |-> 1, CARGO_SPACE |-> 100,
          ACTION_QUEUE_POWER_COST |-> 1]

\* A board: size, tiles of opponent bases, own base tiles (in list order),
\* rubble per tile, resource tiles, opponent heavies, power in the base ledger.
Board(w, h, opp, fac, rub, res, heavy, power) ==
    [W |-> w, H |-> h, opp_factory |-> opp, player_factory |-> fac, rubble |-> rub,
     resource |-> res, opp_heavy |-> heavy, power_available |-> power]

RubbleAt(board, c) ==
    IF \E r \in board.rubble : r.x = c.x /\ r.y = c.y
    THEN (CHOOSE r \in board.rubble : r.x = c.x /\ r.y = c.y).r
    ELSE 0

\* Board.is_valid_c_for_player: on the board and not a tile of an opponent base.
is_valid_c_for_player(board, c) ==
    /\ c.x >= 0 /\ c.x < board.W /\ c.y >= 0 /\ c.y < board.H
    /\ XY(c.x, c.y) \notin board.opp_factory

is_resource_c(board, c) == XY(c.x, c.y) \in board.resource

FactoryTiles(board) == { board.player_factory[i] : i \in DOMAIN board.player_factory }

is_player_factory_tile(board, c) == XY(c.x, c.y) \in FactoryTiles(board)

\* CoordinateList.min_dis_to over the own base tiles.
get_min_distance_to_any_player_factory(board, c) ==
    SetMin({ distance_to(c, f) : f \in FactoryTiles(board) })

\* CoordinateList.get_closest_tile: the first tile of the list at minimal distance.
get_closest_tile(tiles, c) ==
    LET md == SetMin({ distance_to(c, tiles[i]) : i \in DOMAIN tiles })
        i0 == SetMin({ i \in DOMAIN tiles : distance_to(c, tiles[i]) = md })
    IN  tiles[i0]

get_closest_player_factory_tile(board, c) == get_closest_tile(board.player_factory, c)

\* Board.get_min_distance_to_player_factory(c, strain_id): the distance to the
\* closest tile of one own base.
get_min_distance_to_player_factory(board, c, factory) ==
    SetMin({ distance_to(c, f) : f \in factory })

\* Board.get_min_dis_to_opp_heavy (a large distance when there is none).
get_min_dis_to_opp_heavy(board, c) ==
    IF board.opp_heavy = {} THEN 1000
    ELSE SetMin({ distance_to(c, o) : o \in board.opp_heavy })

\* Constraints: forbidden time-coordinates, tiles with a danger cost, the time
\* horizon max_t and the power ceiling max_power_request (the searches read
\* None and 0 alike, and get 0 for both).
Constraints(neg, danger, max_t, max_power_request) ==
    [negative |-> neg, danger |-> danger, max_t |-> max_t,
     max_power_request |-> max_power_request]

TC(x, y, t) == [x |-> x, y |-> y, t |-> t]

\* Constraints.tc_violates_constraint
tc_violates_constraint(cons, c) == TC(c.x, c.y, c.t) \in cons.negative

\* Constraints.get_danger_cost(tc, is_stationary)
get_danger_cost(cons, c, stationary) ==
    IF XY(c.x, c.y) \in cons.danger THEN 10 * CostScale ELSE 0

\* bool(constraints): whether anything constrains the search.
has_constraints(cons) == cons.negative # {} \/ cons.danger # {}

\* Constraints.has_time_constraints
has_time_constraints(cons) == cons.negative # {}

\* -------------------------------------------------- graph variants (graph.py)

\* One graph: the variant tag and every field a variant reads.
Graph(variant, board, ttp, unit_type, cons, goal, goal_d, distance, start_c, next_goal_c, later_pickup, resource, qty) ==
    [variant |-> variant, board |-> board, time_to_power_cost |-> ttp,
     unit_type |-> unit_type, constraints |-> cons, goal |-> goal, goal_d |-> goal_d,
     distance |-> distance, start_c |-> start_c, next_goal_c |-> next_goal_c,
     later_pickup |-> later_pickup, resource |-> resource, q |-> qty, factory |-> {}]

\* TransferToFactoryResourceGraph(..., factory=factory): the graph with a
\* receiving base given, the base standing as the set of its tiles.
ForFactory(g, factory) == [g EXCEPT !.factory = factory]

\* [MoveAction(direction) for direction in Direction]
MovesAll == [i \in 1..5 |-> MoveAction(AllDirs[i])]

\* [MoveAction(dir) for dir in Direction if dir != Direction.CENTER]
MovesNoCenter == [i \in 1..4 |-> MoveAction(AllDirs[i + 1])]

\* A move list that keeps CENTER whatever the constraints: what C17 must tell
\* apart from the list of __post_init__.
MovesKeepCenter(g) == MovesAll

\* The move list of a graph whose __post_init__ drops CENTER without constraints.
MovesByConstraints(g) ==
    IF has_constraints(g.constraints) THEN MovesAll ELSE MovesNoCenter

\* MoveAction.get_move_onto_cost / the power a move onto c takes.
get_move_onto_cost(cfg, board, c) ==
    cfg.MOVE_COST + (cfg.RUBBLE_NUM * RubbleAt(board, c)) \div 100

\* PickupPowerGraph._get_potential_actions: the amount of the pickup offered on a
\* base tile whose ledger reports power.
PickupAmount(g, c) ==
    LET cfg   == UnitCfg(g.unit_type)
        space == cfg.BATTERY_CAPACITY - c.p - cfg.CHARGE
    IN  Max2(0, Min2(Min2(space, g.board.power_available), 3000))

\* A transfer test that lets a unit transfer from any tile.
can_transfer_anywhere(g, c) == TRUE

\* TransferPowerToUnitResourceGraph / TransferToFactoryResourceGraph._can_transfer
can_transfer(g, c) ==
    IF g.variant = "TransferPowerToUnit"
    THEN distance_to(c, g.goal) = 1
    ELSE IF g.factory = {}
         THEN get_min_distance_to_any_player_factory(g.board, c) <= 1
         ELSE get_min_distance_to_player_factory(g.board, c, g.factory) <= 1

\* _get_receiving_tile
get_receiving_tile(g, c) ==
    IF g.variant = "TransferPowerToUnit" THEN g.goal
    ELSE get_closest_player_factory_tile(g.board, c)

\* Coordinate.direction_to: the direction of the larger axis difference.
direction_to(c, target) ==
    LET dx == target.x - c.x
        dy == target.y - c.y
    IN  IF dx = 0 /\ dy = 0 THEN "CENTER"
        ELSE IF Abs(dx) > Abs(dy) THEN (IF dx > 0 THEN "RIGHT" ELSE "LEFT")
        ELSE (IF dy > 0 THEN "DOWN" ELSE "UP")

\* The potential actions of a dig-at graph that offers the dig on every tile.
get_potential_actions_dig_anywhere(g, c) ==
    CASE g.variant \in {"MoveTo", "MoveNear", "MoveRecklessNear"} -> MovesByConstraints(g)
      [] g.variant \in {"FleeTowardsAnyFactory", "Evade"} -> MovesAll
      [] g.variant \in {"FleeDistance", "TilesToClear"} -> MovesNoCenter
      [] g.variant = "PickupPower" ->
            (IF is_player_factory_tile(g.board, c) /\ g.board.power_available # 0
             THEN <<PickupAction(PickupAmount(g, c))>> ELSE <<>>) \o MovesAll
      [] g.variant \in {"TransferPowerToUnit", "TransferToFactory"} ->
            (IF can_transfer(g, c)
             THEN <<TransferAction(direction_to(c, get_receiving_tile(g, c)), g.q)>>
             ELSE <<>>) \o MovesAll
      [] g.variant = "DigAt" ->
            <<DigAction>>
            \o MovesByConstraints(g)

\* Graph._get_potential_actions of every variant.
get_potential_actions(g, c) ==
    CASE g.variant \in {"MoveTo", "MoveNear", "MoveRecklessNear"} -> MovesByConstraints(g)
      [] g.variant \in {"FleeTowardsAnyFactory", "Evade"} -> MovesAll
      [] g.variant \in {"FleeDistance", "TilesToClear"} -> MovesNoCenter
      [] g.variant = "PickupPower" ->
            (IF is_player_factory_tile(g.board, c) /\ g.board.power_available # 0
             THEN <<PickupAction(PickupAmount(g, c))>> ELSE <<>>) \o MovesAll
      [] g.variant \in {"TransferPowerToUnit", "TransferToFactory"} ->
            (IF can_transfer(g, c)
             THEN <<TransferAction(direction_to(c, get_receiving_tile(g, c)), g.q)>>
             ELSE <<>>) \o MovesAll
      [] g.variant = "DigAt" ->
            (IF g.goal.x = c.x /\ g.goal.y = c.y THEN <<DigAction>> ELSE <<>>)
            \o MovesByConstraints(g)

\* A validity test that looks at the constraints and the edge of the board but
\* not at whose tile it is: what C18 must tell apart from the real test.
is_valid_action_node_any_owner(g, a, to_c) ==
    /\ ~tc_violates_constraint(g.constraints, to_c)
    /\ to_c.x >= 0 /\ to_c.x < g.board.W /\ to_c.y >= 0 /\ to_c.y < g.board.H
    /\ get_danger_cost(g.constraints, to_c, is_stationary(a)) = 0

\* A validity test that looks at the board alone and never at the constraints.
is_valid_action_node_board_only(g, a, to_c) == is_valid_c_for_player(g.board, to_c)

\* Graph._is_valid_action_node and its overrides.
is_valid_action_node(g, a, to_c) ==
    CASE g.variant = "TilesToClear" -> is_valid_c_for_player(g.board, to_c)
      [] g.variant \in {"FleeTowardsAnyFactory", "FleeDistance", "MoveRecklessNear", "Evade"} ->
            /\ ~tc_violates_constraint(g.constraints, to_c)
            /\ is_valid_c_for_player(g.board, to_c)
      [] OTHER ->
            /\ ~tc_violates_constraint(g.constraints, to_c)
            /\ is_valid_c_for_player(g.board, to_c)
            /\ get_danger_cost(g.constraints, to_c, is_stationary(a)) = 0

\* Graph.get_valid_action_nodes: the (action, next node) pairs of a node, in the
\* order the generator yields them.
get_valid_action_nodes(g, c) ==
    LET pot == get_potential_actions(g, c)
        all == [i \in DOMAIN pot |-> <<pot[i], add_action(c, pot[i])>>]
        Valid(an) == is_valid_action_node(g, an[1], an[2])
    IN  SelectSeq(all, Valid)

\* Graph._get_power_cost: max(0, -power_change) of the action.
get_power_cost(g, a, to_c) ==
    CASE a.kind = "move" /\ a.dir # "CENTER" ->
            get_move_onto_cost(UnitCfg(g.unit_type), g.board, to_c) * CostScale
      [] a.kind = "dig" -> UnitCfg(g.unit_type).DIG_COST * CostScale
      [] a.kind = "transfer" /\ g.resource = "POWER" -> a.amount * CostScale
      [] OTHER -> 0

\* Graph._get_penalty_on_resource_next_to_base
get_penalty_on_resource_next_to_base(g, to_c) ==
    IF /\ is_resource_c(g.board, to_c)
       /\ Len(g.board.player_factory) > 0
       /\ get_min_distance_to_any_player_factory(g.board, to_c) = 1
    THEN CostScale ELSE 0

\* Graph._get_danger_cost: the distance of an opponent heavy to a light unit.
base_danger_cost(g, to_c) ==
    IF g.unit_type = "HEAVY" THEN 0
    ELSE LET dis == get_min_dis_to_opp_heavy(g.board, to_c)
         IN  IF dis = 0 THEN 50 * CostScale
             ELSE IF dis = 1 THEN 5 * CostScale ELSE 0

\* FleeGraph / EvadeConstraintsGraph add the constraints' danger cost.
graph_danger_cost(g, a, to_c) ==
    IF g.variant \in {"FleeTowardsAnyFactory", "FleeDistance", "Evade"}
    THEN base_danger_cost(g, to_c) + get_danger_cost(g.constraints, to_c, is_stationary(a))
    ELSE base_danger_cost(g, to_c)

MinCostPerStep(g) == (g.time_to_power_cost + UnitCfg(g.unit_type).MOVE_COST) * CostScale

\* node_completes_goal of every variant.
node_completes_goal(g, node) ==
    CASE g.variant \in {"MoveTo", "TilesToClear"} -> g.goal.x = node.x /\ g.goal.y = node.y
      [] g.variant \in {"MoveNear", "MoveRecklessNear"} -> distance_to(g.goal, node) = g.distance
      [] g.variant = "FleeTowardsAnyFactory" ->
            get_min_distance_to_any_player_factory(g.board, node) = 0
      [] g.variant = "FleeDistance" -> distance_to(node, g.start_c) >= g.distance
      [] g.variant = "Evade" ->
            ~tc_violates_constraint(g.constraints, add_action(node, MoveAction("CENTER")))
      [] g.variant = "PickupPower" -> node.q > 0
      [] g.variant \in {"TransferPowerToUnit", "TransferToFactory"} -> node.q < 0
      [] g.variant = "DigAt" ->
            g.goal.x = node.x /\ g.goal.y = node.y /\ g.goal_d = node.d

\* A cost that leaves out time_to_power_cost, so that standing still on a safe
\* tile is free: the cost C37 must tell apart from the real one.
get_cost_without_time(g, a, to_c) ==
    get_power_cost(g, a, to_c) + get_penalty_on_resource_next_to_base(g, to_c)
    + graph_danger_cost(g, a, to_c)

\* Graph.get_cost and its overrides.
get_cost(g, a, to_c) ==
    LET base == get_power_cost(g, a, to_c) + g.time_to_power_cost * CostScale
                + get_penalty_on_resource_next_to_base(g, to_c)
                + graph_danger_cost(g, a, to_c)
    IN  CASE g.variant = "TilesToClear" ->
                get_power_cost(g, a, to_c) + g.time_to_power_cost * CostScale
                + (IF is_resource_c(g.board, to_c) THEN 100 * CostScale ELSE 0)
          [] g.variant = "PickupPower" /\ g.next_goal_c # NoC /\ a.kind = "pickup" ->
                base + distance_to(to_c, g.next_goal_c) * MinCostPerStep(g)
                + (IF g.later_pickup THEN -1 * to_c.t ELSE to_c.t)
          [] g.variant = "TransferToFactory" ->
                base + (IF node_completes_goal(g, to_c)
                           /\ ~is_player_factory_tile(g.board, to_c)
                        THEN CostScale ELSE 0)
          [] OTHER -> base

\* GoalGraph._get_distance_heuristic
goal_distance_heuristic(g, node) ==
    LET min_nr_steps == distance_to(node, g.goal)
        last_action_cost ==
            (g.time_to_power_cost
             + get_move_onto_cost(UnitCfg(g.unit_type), g.board, g.goal)) * CostScale
    IN  IF min_nr_steps = 0 THEN 0
        ELSE (min_nr_steps - 1) * MinCostPerStep(g) + last_action_cost

\* get_heuristic of every variant.
get_heuristic(g, node) ==
    CASE g.variant \in {"MoveTo", "TilesToClear"} -> goal_distance_heuristic(g, node)
      [] g.variant \in {"MoveNear", "MoveRecklessNear"} ->
            Abs(distance_to(g.goal, node) - g.distance) * MinCostPerStep(g)
      [] g.variant = "FleeTowardsAnyFactory" ->
            get_min_distance_to_any_player_factory(g.board, node) * MinCostPerStep(g)
      [] g.variant = "FleeDistance" ->
            (g.distance - distance_to(node, g.start_c)) * MinCostPerStep(g)
      [] g.variant = "Evade" -> -1 * node.t * CostScale
      [] g.variant = "PickupPower" ->
            IF node_completes_goal(g, node) THEN 0
            ELSE LET tile == get_closest_player_factory_tile(g.board, node)
                     total == distance_to(node, tile)
                              + (IF g.next_goal_c # NoC
                                 THEN distance_to(g.next_goal_c, tile) ELSE 0)
                 IN  total * MinCostPerStep(g) + g.time_to_power_cost * CostScale
      [] g.variant = "TransferPowerToUnit" ->
            IF node_completes_goal(g, node) THEN 0
            ELSE Max2(distance_to(node, g.goal) - 1, 0) * MinCostPerStep(g)
                 + g.time_to_power_cost * CostScale
                 + (IF g.resource = "POWER" THEN g.q * CostScale ELSE 0)
      [] g.variant = "TransferToFactory" ->
            IF node_completes_goal(g, node) THEN 0
            ELSE Max2((IF g.factory = {}
                       THEN get_min_distance_to_any_player_factory(g.board, node)
                       ELSE get_min_distance_to_player_factory(g.board, node, g.factory))
                      - 1, 0)
                   * MinCostPerStep(g)
                 + g.time_to_power_cost * CostScale
                 + (IF g.resource = "POWER" THEN g.q * CostScale ELSE 0)
      [] g.variant = "DigAt" ->
            goal_distance_heuristic(g, node)
            + (g.goal_d - node.d)
              * (UnitCfg(g.unit_type).DIG_COST + g.time_to_power_cost) * CostScale

\* ------------------------------------------------------ Search (search.py)

VARIABLES
    graph,        \* Search.graph
    start,        \* the start node of get_actions_to_complete_goal
    budget,       \* its budget
    frontier,     \* Search.frontier: the (priority, node) entries of the heap
    came_from,    \* Search.came_from: node -> <<action, predecessor>>
    cost_so_far,  \* Search.cost_so_far: node -> cost
    iter,         \* the loop counter i of _find_optimal_solution
    current_node, \* the local current_node of _find_optimal_solution
    final_node,   \* Search.final_node
    solution,     \* the list get_actions_to_complete_goal returns
    pc,           \* "new", "loop", "found", "done", "raised"
    outcome       \* "none", "returned", "NoSolutionError", "SolutionNotFoundWithinBudgetError"

searchVars == <<graph, start, budget, frontier, came_from, cost_so_far, iter,
                current_node, final_node, solution, pc, outcome>>

\* The scheduler (lux_bots/agent/agent.py, objects/actors/factory.py)
VARIABLES
    unit_goal_collections, \* the argument of resolve_goal_conflicts: per unit, in
                           \* order, the goals of its GoalCollection as <<key, value>>
    cost_matrix,           \* the DataFrame _create_cost_matrix returns
    rows,                  \* row_ind of linear_sum_assignment (units, from 1)
    cols,                  \* col_ind of linear_sum_assignment (columns, from 1)
    goal_keys,             \* the list _solve_sum_assigment_problem returns
    unit_goals,            \* the list resolve_goal_conflicts returns: <<unit, key>>
    rpc,                   \* "idle", "start", "matrix", "solved", "done", "raised"
    factory_units,         \* Factory.units: unit id -> [is_heavy, goal]
    round_result           \* what the last schedule_strategy_collect_* call did

schedVars == <<unit_goal_collections, cost_matrix, rows, cols, goal_keys, unit_goals,
               rpc, factory_units, round_result>>

\* The dig leg of a goal (agent/logic/goals/unit_goal.py, lux_bots/agent/logic/goal.py)
VARIABLES
    leg_actions,   \* the argument actions of find_max_dig_actions_can_still_reach_factory
    can_reach,     \* dig count -> whether the unit can still reach a factory
    low,           \* the local low
    high,          \* the local high
    dig_result,    \* the list find_max_dig_actions_can_still_reach_factory returns
    dpc,           \* "idle", "start", "loop", "done", "raised"
    n_digging,     \* the local n_digging of _add_max_dig_action
    best_n,        \* the local best_n of _add_max_dig_action (-1 for None)
    lpc            \* "idle", "loop", "done"

digVars == <<leg_actions, can_reach, low, high, dig_result, dpc, n_digging, best_n, lpc>>

\* One goal of one actor (agent/logic/goals/unit_goal.py, factory_goal.py)
VARIABLES
    cur_goal,          \* the goal: its class, and the class of the goal it wraps
    is_under_threath,  \* Unit.is_under_threath(game_state) of the goal's unit
    goal_is_valid,     \* the goal's _is_valid: "None", "True" or "False"
    goal_value,        \* the goal's _value: NoValue or Value(v), v in 1 / CostScale
    goal_plan,         \* the goal's action_plan
    goal_cons,         \* the Constraints generate_action_plan is called with
    parent_valid,      \* what _parent_solution_is_valid returned: "None", "True", "False"
    goal_read,         \* the last read of a property: what was read and what came back
    gpc                \* "idle", "new", "generated"

goalVars == <<cur_goal, is_under_threath, goal_is_valid, goal_value, goal_plan, goal_cons,
              parent_valid, goal_read, gpc>>

\* One scheduling step of a factory against the caller's schedule_info
\* (objects/actors/factory.py). Constraints and power trackers are objects:
\* a schedule_info holds references, and two may hold the same one.
VARIABLES
    constraints_heap,     \* id -> the forbidden set of that Constraints instance
    power_tracker_heap,   \* id -> the power requests of that PowerTracker instance
    caller_info,          \* the schedule_info the caller passed: the ids it holds
    schedule_info,        \* the step's local variable schedule_info
    affected_unit,        \* the unit whose reservations the step retracts
    goal_receiving_unit,  \* the plan of the goal generated for the receiving unit
    goal_supplying_unit,  \* the plan of the goal generated for the supplying unit
    spc                   \* where the step is

supplyVars == <<constraints_heap, power_tracker_heap, caller_info, schedule_info,
                affected_unit, goal_receiving_unit, goal_supplying_unit, spc>>

\* One call of Factory.schedule_units (objects/actors/factory.py)
VARIABLES
    sorted_threaths_invaders,  \* the factory's list of invaders, popped from the end
    hunted_opp_units,          \* game_state.hunted_opp_units: invaders already hunted
    light_available,           \* has_light_unit_available
    heavy_available,           \* has_heavy_unit_available
    heavy_unsupplied,          \* has_heavy_unsupplied_collecting_next_to_factory
    strategies,                \* the strategies the call was given, in order
    strategy_i,                \* the strategy the for loop is at
    attempted,                 \* the stages called so far and how each ended
    returned_goals,            \* what schedule_units returned
    upc                        \* where the call is

stageVars == <<sorted_threaths_invaders, hunted_opp_units, light_available, heavy_available,
               heavy_unsupplied, strategies, strategy_i, attempted, returned_goals, upc>>

\* One ActionPlanSimulator run (lux_bots/agent/objects/action_plan.py)
VARIABLES
    sim_unit,        \* the unit: its type, power and battery capacity
    real_env_steps,  \* game_state.real_env_steps
    sim_check,       \* which check runs: "carry_out_plan" or "reach_factory"
    sim_prefix,      \* the primitive actions of the plan before its last digs
    sim_digs,        \* the number of dig actions the plan ends with
    actions_to_factory, \* the moves from the plan's end to the closest factory
    sim_actions,     \* the actions _simulate_actions is looping over
    sim_i,           \* the index of the next of them
    cur_power,       \* the simulator's cur_power
    sim_t,           \* the simulator's t
    sim_result,      \* what the check returned: "None" until it did
    mpc              \* where the check is

simVars == <<sim_unit, real_env_steps, sim_check, sim_prefix, sim_digs, actions_to_factory,
             sim_actions, sim_i, cur_power, sim_t, sim_result, mpc>>

\* The turns of Agent.get_unit_actions (lux_bots/agent/agent.py)
VARIABLES
    prev_steps_goals,  \* Agent.prev_steps_goals: unit id -> the key of its goal
    action_queue,      \* per unit, in game_state.player_units order: the actions left
    queued_at_start,   \* the units that started the last turn with actions in the queue
    committed,         \* the units resolve_goal_conflicts gave a goal in the last turn
    sent,              \* the units that were sent actions in the last turn
    turn,              \* the number of turns played
    tpc                \* "idle", "turn", "acted", "KeyError", "ValueError"

turnVars == <<prev_steps_goals, action_queue, queued_at_start, committed, sent, turn, tpc>>

\* Two TimeCoordinates and the outcome of comparing them (objects/coordinate.py)
VARIABLES
    tc_a,     \* a TimeCoordinate
    tc_b,     \* another
    a_lt_b,   \* tc_a < tc_b: "None" until compared
    b_lt_a,   \* tc_b < tc_a
    a_eq_b,   \* tc_a == tc_b
    opc       \* "idle", "new", "compared"

ordVars == <<tc_a, tc_b, a_lt_b, b_lt_a, a_eq_b, opc>>

\* The units of a factory over the rounds of one scheduling pass (factory.py)
VARIABLES
    pass_units,   \* per unit: is_heavy, can_update_action_queue, can_be_assigned,
                  \* plan_len (len(private_action_plan)), goal, supplied_by
    assignments,  \* the goals the rounds returned so far: stage, role, unit, and
                  \* whether the unit held a non-empty plan when it was chosen
    round,        \* rounds of the pass so far
    ppc           \* "idle", "pass"

passVars == <<pass_units, assignments, round, ppc>>

\* The solution_hash of one unit goal over its generate_action_plan calls
\* (agent/logic/goals/unit_goal.py)
VARIABLES
    constraints_of,   \* key -> the Constraints with that key: parent key and content
    solution_hash,    \* UnitGoal.solution_hash: key -> plan
    calls,            \* the calls so far: key, what the hash held, what came back
    nr_generated,     \* plans _generate_action_plan has built so far
    hpc               \* "idle", "goal"

hashVars == <<constraints_of, solution_hash, calls, nr_generated, hpc>>

\* No resolve_goal_conflicts call and no factory round is in progress.
SchedIdle ==
    /\ unit_goal_collections = <<>>
    /\ cost_matrix = [columns |-> <<>>, cost |-> <<>>]
    /\ rows = <<>>
    /\ cols = <<>>
    /\ goal_keys = <<>>
    /\ unit_goals = <<>>
    /\ rpc = "idle"
    /\ factory_units = <<>>
    /\ round_result = "none"

\* No dig leg is being cut.
DigIdle ==
    /\ leg_actions = <<>>
    /\ can_reach = <<>>
    /\ low = 0
    /\ high = 0
    /\ dig_result = <<>>
    /\ dpc = "idle"
    /\ n_digging = 0
    /\ best_n = -1
    /\ lpc = "idle"

\* The ActionPlan of an actor: its actions and what it occupies and requests.
Plan(actions, time_coordinates, power_requested) ==
    [actions |-> actions, time_coordinates |-> time_coordinates,
     power_requested |-> power_requested]

\* No property of the goal was read yet.
NoRead == [prop |-> "none", raised |-> FALSE, result |-> "None", at |-> "idle"]

\* A _value that is None, and one that is set.
NoValue == [is_none |-> TRUE, v |-> 0]

Value(v) == [is_none |-> FALSE, v |-> v]

\* No goal is being generated.
GoalIdle ==
    /\ cur_goal = [type |-> "none", wrapped |-> "none"]
    /\ is_under_threath = FALSE
    /\ goal_is_valid = "None"
    /\ goal_value = NoValue
    /\ goal_plan = Plan(<<>>, {}, 0)
    /\ goal_cons = Constraints({}, {}, 0, 0)
    /\ parent_valid = "None"
    /\ goal_read = NoRead
    /\ gpc = "idle"

\* Last turn a plan of the scheduling step reaches.
MaxSupplyT == 2

SupplyTurns == 1..MaxSupplyT

\* ScheduleInfo: the Constraints and the PowerTracker it refers to.
ScheduleInfo(constraints, power_tracker) ==
    [constraints |-> constraints, power_tracker |-> power_tracker]

\* What a UnitActionPlan hands the scheduler: get_time_coordinates and
\* get_power_requests (the power asked of the base, per turn).
UnitPlanInfo(time_coordinates, power_requests) ==
    [time_coordinates |-> time_coordinates, power_requests |-> power_requests]

\* The empty plan: no time-coordinate, no power request.
EmptyUnitPlan == UnitPlanInfo({}, [t \in SupplyTurns |-> 0])

\* No scheduling step is in progress.
SupplyIdle ==
    /\ constraints_heap = <<>>
    /\ power_tracker_heap = <<>>
    /\ caller_info = ScheduleInfo(0, 0)
    /\ schedule_info = ScheduleInfo(0, 0)
    /\ affected_unit = [is_scheduled |-> FALSE, private_action_plan |-> EmptyUnitPlan]
    /\ goal_receiving_unit = EmptyUnitPlan
    /\ goal_supplying_unit = EmptyUnitPlan
    /\ spc = "idle"

\* No schedule_units call is in progress.
StageIdle ==
    /\ sorted_threaths_invaders = <<>>
    /\ hunted_opp_units = {}
    /\ light_available = FALSE
    /\ heavy_available = FALSE
    /\ heavy_unsupplied = FALSE
    /\ strategies = <<>>
    /\ strategy_i = 0
    /\ attempted = <<>>
    /\ returned_goals = <<>>
    /\ upc = "idle"

\* No simulator runs.
SimIdle ==
    /\ sim_unit = [unit_type |-> "LIGHT", power |-> 0, BATTERY_CAPACITY |-> 0]
    /\ real_env_steps = 0
    /\ sim_check = "none"
    /\ sim_prefix = <<>>
    /\ sim_digs = 0
    /\ actions_to_factory = <<>>
    /\ sim_actions = <<>>
    /\ sim_i = 0
    /\ cur_power = 0
    /\ sim_t = 0
    /\ sim_result = "None"
    /\ mpc = "idle"

\* No turn is played.
TurnIdle ==
    /\ prev_steps_goals = <<>>
    /\ action_queue = <<>>
    /\ queued_at_start = {}
    /\ committed = {}
    /\ sent = {}
    /\ turn = 0
    /\ tpc = "idle"

\* Nothing is compared.
OrdIdle ==
    /\ tc_a = TC(0, 0, 0)
    /\ tc_b = TC(0, 0, 0)
    /\ a_lt_b = "None"
    /\ b_lt_a = "None"
    /\ a_eq_b = "None"
    /\ opc = "idle"

\* No solution_hash is followed.
HashIdle ==
    /\ constraints_of = <<>>
    /\ solution_hash = <<>>
    /\ calls = <<>>
    /\ nr_generated = 0
    /\ hpc = "idle"

\* No scheduling pass is in progress.
PassIdle ==
    /\ pass_units = <<>>
    /\ assignments = <<>>
    /\ round = 0
    /\ ppc = "idle"

NoNode == Node(-1, -1, -1, 0, 0, 0)

EmptyFcn == [n \in {} |-> 0]

PutFcn(f, k, v) == [n \in DOMAIN f \cup {k} |-> IF n = k THEN v ELSE f[n]]

\* heapq order of (priority, item): by priority, then TimeCoordinate.__lt__ (by t).
EntryBefore(e1, e2) ==
    e1[1] < e2[1] \/ (e1[1] = e2[1] /\ e1[2].t < e2[2].t)

\* The entries PriorityQueue.pop may return: those no other entry sorts before.
PopCandidates(fr) == { e \in fr : \A o \in fr : ~EntryBefore(o, e) }

\* Search._add_node
add_node(g, st, node, action, cur, node_cost) ==
    [cost_so_far |-> PutFcn(st.cost_so_far, node, node_cost),
     came_from   |-> PutFcn(st.came_from, node, <<action, cur>>),
     frontier    |-> st.frontier \cup {<<node_cost + get_heuristic(g, node), node>>}]

\* The body of the for loop over get_valid_action_nodes, from the k-th pair on.
RECURSIVE Relax(_, _, _, _, _, _)
Relax(g, st, cur, current_cost, ans, k) ==
    IF k > Len(ans) THEN st
    ELSE LET action    == ans[k][1]
             next_node == ans[k][2]
             new_cost  == current_cost + get_cost(g, action, next_node)
         IN  IF next_node \notin DOMAIN st.cost_so_far \/ new_cost < st.cost_so_far[next_node]
             THEN Relax(g, add_node(g, st, next_node, action, cur, new_cost),
                        cur, current_cost, ans, k + 1)
             ELSE Relax(g, st, cur, current_cost, ans, k + 1)

\* Search._get_solution_actions
RECURSIVE get_solution_actions(_, _)
get_solution_actions(cf, cur_c) ==
    IF cur_c \in DOMAIN cf
    THEN Append(get_solution_actions(cf, cf[cur_c][2]), cf[cur_c][1])
    ELSE <<>>

\* Search._init_search
InitSearch ==
    /\ pc = "new"
    /\ cost_so_far' = PutFcn(cost_so_far, start, 0)
    /\ frontier' = frontier \cup {<<0, start>>}
    /\ iter' = 0
    /\ pc' = "loop"
    /\ UNCHANGED <<graph, start, budget, came_from, current_node, final_node, solution,
                   outcome>>
    /\ UNCHANGED <<schedVars, digVars, goalVars, supplyVars, stageVars, simVars, turnVars, ordVars,
                   passVars, hashVars>>

\* A loop head that gives up as soon as i reaches the budget: the search C3
\* must tell apart from the real one.
loop_raises_at_budget(fr, i, b) ==
    IF fr = {} THEN "NoSolutionError"
    ELSE IF i >= b THEN "SolutionNotFoundWithinBudgetError"
    ELSE "none"

\* A loop head that tests the budget before the frontier: the search C4 must
\* tell apart from the real one.
loop_raises_budget_first(fr, i, b) ==
    IF i > b THEN "SolutionNotFoundWithinBudgetError"
    ELSE IF fr = {} THEN "NoSolutionError"
    ELSE "none"

\* A loop head that lets one more iteration pass before the budget error: the
\* search C36 must tell apart from the real one.
loop_raises_one_late(fr, i, b) ==
    IF fr = {} THEN "NoSolutionError"
    ELSE IF i > b + 1 THEN "SolutionNotFoundWithinBudgetError"
    ELSE "none"

\* _find_optimal_solution: the two checks at the head of every iteration, in
\* the order the loop makes them; "none" when the iteration goes on to pop.
loop_raises(fr, i, b) ==
    IF fr = {} THEN "NoSolutionError"
    ELSE IF i > b THEN "SolutionNotFoundWithinBudgetError"
    ELSE "none"

\* _find_optimal_solution: if self.frontier.is_empty(): raise NoSolutionError
RaiseNoSolution ==
    /\ pc = "loop"
    /\ loop_raises(frontier, iter, budget) = "NoSolutionError"
    /\ pc' = "raised"
    /\ outcome' = "NoSolutionError"
    /\ UNCHANGED <<graph, start, budget, frontier, came_from, cost_so_far, iter,
                   current_node, final_node, solution>>
    /\ UNCHANGED <<schedVars, digVars, goalVars, supplyVars, stageVars, simVars, turnVars, ordVars,
                   passVars, hashVars>>

\* _find_optimal_solution: if i > budget: raise SolutionNotFoundWithinBudgetError
RaiseBudget ==
    /\ pc = "loop"
    /\ loop_raises(frontier, iter, budget) = "SolutionNotFoundWithinBudgetError"
    /\ pc' = "raised"
    /\ outcome' = "SolutionNotFoundWithinBudgetError"
    /\ UNCHANGED <<graph, start, budget, frontier, came_from, cost_so_far, iter,
                   current_node, final_node, solution>>
    /\ UNCHANGED <<schedVars, digVars, goalVars, supplyVars, stageVars, simVars, turnVars, ordVars,
                   passVars, hashVars>>

\* _find_optimal_solution: the popped node completes the goal: break
PopGoal ==
    /\ pc = "loop"
    /\ loop_raises(frontier, iter, budget) = "none"
    /\ \E e \in PopCandidates(frontier) :
          /\ node_completes_goal(graph, e[2])
          /\ frontier' = frontier \ {e}
          /\ current_node' = e[2]
          /\ final_node' = e[2]
    /\ pc' = "found"
    /\ UNCHANGED <<graph, start, budget, came_from, cost_so_far, iter, solution, outcome>>
    /\ UNCHANGED <<schedVars, digVars, goalVars, supplyVars, stageVars, simVars, turnVars, ordVars,
                   passVars, hashVars>>

\* _find_optimal_solution: the popped node is expanded
Expand ==
    /\ pc = "loop"
    /\ loop_raises(frontier, iter, budget) = "none"
    /\ \E e \in PopCandidates(frontier) :
          /\ ~node_completes_goal(graph, e[2])
          /\ LET st0 == [cost_so_far |-> cost_so_far, came_from |-> came_from,
                         frontier |-> frontier \ {e}]
                 st1 == Relax(graph, st0, e[2], cost_so_far[e[2]],
                              get_valid_action_nodes(graph, e[2]), 1)
             IN  /\ cost_so_far' = st1.cost_so_far
                 /\ came_from' = st1.came_from
                 /\ frontier' = st1.frontier
          /\ current_node' = e[2]
    /\ iter' = iter + 1
    /\ UNCHANGED <<graph, start, budget, final_node, solution, pc, outcome>>
    /\ UNCHANGED <<schedVars, digVars, goalVars, supplyVars, stageVars, simVars, turnVars, ordVars,
                   passVars, hashVars>>

\* get_actions_to_complete_goal: return self._get_solution_actions()
Return ==
    /\ pc = "found"
    /\ solution' = get_solution_actions(came_from, final_node)
    /\ pc' = "done"
    /\ outcome' = "returned"
    /\ UNCHANGED <<graph, start, budget, frontier, came_from, cost_so_far, iter,
                   current_node, final_node>>
    /\ UNCHANGED <<schedVars, digVars, goalVars, supplyVars, stageVars, simVars, turnVars, ordVars,
                   passVars, hashVars>>

\* --------------------------------- the older Search (agent/search.py)

\* One graph of the older search: the variant tag and the fields its classes read.
OldGraph(variant, board, ttp, unit_type, cons, goal, goal_d, start_c, opp_c, power_pickup_goal) ==
    [variant |-> variant, board |-> board, time_to_power_cost |-> ttp,
     unit_type |-> unit_type, constraints |-> cons, goal |-> goal, goal_d |-> goal_d,
     start_c |-> start_c, opp_c |-> opp_c, power_pickup_goal |-> power_pickup_goal]

OldVariants == {"OldMoveTo", "OldFleeTo", "OldPickupPower", "OldDigAt"}

\* __post_init__: CENTER is dropped when there are no time constraints.
old_move_actions(g) ==
    IF has_time_constraints(g.constraints) THEN MovesAll ELSE MovesNoCenter

\* MoveAction.get_final_c(start_c).xy
get_final_c(a, c) == LET to_c == add_action(c, a) IN XY(to_c.x, to_c.y)

\* PickupPowerGraph.__post_init__: the goal is capped by max_power_request.
old_power_pickup_goal(g) ==
    IF g.constraints.max_power_request # 0
       /\ g.constraints.max_power_request < g.power_pickup_goal
    THEN g.constraints.max_power_request
    ELSE g.power_pickup_goal

\* The four older graphs with a flee graph that offers every move on every turn.
old_potential_actions_flee_unrestricted(g, c) ==
    CASE g.variant \in {"OldMoveTo", "OldFleeTo"} -> old_move_actions(g)
      [] g.variant = "OldPickupPower" ->
            old_move_actions(g)
            \o (IF is_player_factory_tile(g.board, c)
                THEN <<PickupAction(old_power_pickup_goal(g))>> ELSE <<>>)
      [] g.variant = "OldDigAt" ->
            IF g.goal.x = c.x /\ g.goal.y = c.y
            THEN IF has_time_constraints(g.constraints) /\ g.constraints.max_t <= c.t
                 THEN <<DigAction>>
                 ELSE old_move_actions(g) \o <<DigAction>>
            ELSE old_move_actions(g)

\* The four older graphs with a dig-at graph that knows no time horizon.
old_potential_actions_no_horizon(g, c) ==
    CASE g.variant = "OldMoveTo" -> old_move_actions(g)
      [] g.variant = "OldFleeTo" ->
            LET FirstTurn(a) == get_final_c(a, c) # g.opp_c /\ ~is_stationary(a)
                SecondTurn(a) == get_final_c(a, c) # XY(g.start_c.x, g.start_c.y)
            IN  IF c.t = g.start_c.t THEN SelectSeq(old_move_actions(g), FirstTurn)
                ELSE IF c.t = g.start_c.t + 1
                     THEN SelectSeq(old_move_actions(g), SecondTurn)
                     ELSE old_move_actions(g)
      [] g.variant = "OldPickupPower" ->
            old_move_actions(g)
            \o (IF is_player_factory_tile(g.board, c)
                THEN <<PickupAction(old_power_pickup_goal(g))>> ELSE <<>>)
      [] g.variant = "OldDigAt" ->
            IF g.goal.x = c.x /\ g.goal.y = c.y
            THEN old_move_actions(g) \o <<DigAction>>
            ELSE old_move_actions(g)

\* potential_actions of the four older graphs.
old_potential_actions(g, c) ==
    CASE g.variant = "OldMoveTo" -> old_move_actions(g)
      [] g.variant = "OldFleeTo" ->
            LET FirstTurn(a) == get_final_c(a, c) # g.opp_c /\ ~is_stationary(a)
                SecondTurn(a) == get_final_c(a, c) # XY(g.start_c.x, g.start_c.y)
            IN  IF c.t = g.start_c.t THEN SelectSeq(old_move_actions(g), FirstTurn)
                ELSE IF c.t = g.start_c.t + 1
                     THEN SelectSeq(old_move_actions(g), SecondTurn)
                     ELSE old_move_actions(g)
      [] g.variant = "OldPickupPower" ->
            old_move_actions(g)
            \o (IF is_player_factory_tile(g.board, c)
                THEN <<PickupAction(old_power_pickup_goal(g))>> ELSE <<>>)
      [] g.variant = "OldDigAt" ->
            IF g.goal.x = c.x /\ g.goal.y = c.y
            THEN IF has_time_constraints(g.constraints) /\ g.constraints.max_t <= c.t
                 THEN <<DigAction>>
                 ELSE old_move_actions(g) \o <<DigAction>>
            ELSE old_move_actions(g)

\* The older Graph.get_valid_action_nodes: only the board decides.
old_get_valid_action_nodes(g, c) ==
    LET pot == old_potential_actions(g, c)
        all == [i \in DOMAIN pot |-> <<pot[i], add_action(c, pot[i])>>]
        Valid(an) == is_valid_c_for_player(g.board, an[2])
    IN  SelectSeq(all, Valid)

\* float addition with math.inf
inf_add(a, b) == IF a >= Inf \/ b >= Inf THEN Inf ELSE a + b

\* The older Graph.cost: math.inf for a forbidden destination.
old_cost(g, a, to_c) ==
    IF tc_violates_constraint(g.constraints, to_c) THEN Inf
    ELSE get_power_cost(g, a, to_c) + g.time_to_power_cost * CostScale

\* node_completes_goal of the four older graphs.
old_node_completes_goal(g, node) ==
    CASE g.variant \in {"OldMoveTo", "OldFleeTo"} -> g.goal.x = node.x /\ g.goal.y = node.y
      [] g.variant = "OldPickupPower" -> old_power_pickup_goal(g) <= node.p
      [] g.variant = "OldDigAt" ->
            g.goal.x = node.x /\ g.goal.y = node.y /\ g.goal_d = node.d

\* heuristic of the four older graphs.
old_heuristic(g, node) ==
    CASE g.variant \in {"OldMoveTo", "OldFleeTo"} ->
            distance_to(node, g.goal) * MinCostPerStep(g)
      [] g.variant = "OldPickupPower" ->
            distance_to(get_closest_player_factory_tile(g.board, node), node) * CostScale
            + (IF old_node_completes_goal(g, node) THEN 0
               ELSE g.time_to_power_cost * CostScale)
      [] g.variant = "OldDigAt" ->
            distance_to(node, g.goal) * MinCostPerStep(g)
            + (g.goal_d - node.d)
              * (UnitCfg(g.unit_type).DIG_COST + g.time_to_power_cost) * CostScale

\* The older Search._add_node
old_add_node(g, st, node, action, cur, node_cost) ==
    [cost_so_far |-> PutFcn(st.cost_so_far, node, node_cost),
     came_from   |-> PutFcn(st.came_from, node, <<action, cur>>),
     frontier    |-> st.frontier \cup {<<inf_add(node_cost, old_heuristic(g, node)), node>>}]

\* The body of the older for loop over get_valid_action_nodes, from the k-th pair on.
RECURSIVE old_Relax(_, _, _, _, _, _)
old_Relax(g, st, cur, current_cost, ans, k) ==
    IF k > Len(ans) THEN st
    ELSE LET action    == ans[k][1]
             next_node == ans[k][2]
             new_cost  == inf_add(current_cost, old_cost(g, action, next_node))
         IN  IF next_node \notin DOMAIN st.cost_so_far \/ new_cost < st.cost_so_far[next_node]
             THEN old_Relax(g, old_add_node(g, st, next_node, action, cur, new_cost),
                            cur, current_cost, ans, k + 1)
             ELSE old_Relax(g, st, cur, current_cost, ans, k + 1)

\* while not self.frontier.empty(): the popped node completes the goal: break
OldPopGoal ==
    /\ pc = "loop"
    /\ frontier # {}
    /\ \E e \in PopCandidates(frontier) :
          /\ old_node_completes_goal(graph, e[2])
          /\ frontier' = frontier \ {e}
          /\ current_node' = e[2]
          /\ final_node' = e[2]
    /\ pc' = "found"
    /\ UNCHANGED <<graph, start, budget, came_from, cost_so_far, iter, solution, outcome>>
    /\ UNCHANGED <<schedVars, digVars, goalVars, supplyVars, stageVars, simVars, turnVars, ordVars,
                   passVars, hashVars>>

\* while not self.frontier.empty(): the popped node is expanded
OldExpand ==
    /\ pc = "loop"
    /\ frontier # {}
    /\ iter < MaxOldPops
    /\ \E e \in PopCandidates(frontier) :
          /\ ~old_node_completes_goal(graph, e[2])
          /\ LET st0 == [cost_so_far |-> cost_so_far, came_from |-> came_from,
                         frontier |-> frontier \ {e}]
                 st1 == old_Relax(graph, st0, e[2], cost_so_far[e[2]],
                                  old_get_valid_action_nodes(graph, e[2]), 1)
             IN  /\ cost_so_far' = st1.cost_so_far
                 /\ came_from' = st1.came_from
                 /\ frontier' = st1.frontier
          /\ current_node' = e[2]
    /\ iter' = iter + 1
    /\ UNCHANGED <<graph, start, budget, final_node, solution, pc, outcome>>
    /\ UNCHANGED <<schedVars, digVars, goalVars, supplyVars, stageVars, simVars, turnVars, ordVars,
                   passVars, hashVars>>

\* The while loop ends on an empty frontier: self.final_node = current_node
OldExhausted ==
    /\ pc = "loop"
    /\ frontier = {}
    /\ final_node' = current_node
    /\ pc' = "found"
    /\ UNCHANGED <<graph, start, budget, frontier, came_from, cost_so_far, iter,
                   current_node, solution, outcome>>
    /\ UNCHANGED <<schedVars, digVars, goalVars, supplyVars, stageVars, simVars, turnVars, ordVars,
                   passVars, hashVars>>

\* The goal test of the graph a search runs on, older or newer.
completes_goal(g, node) ==
    IF g.variant \in OldVariants THEN old_node_completes_goal(g, node)
    ELSE node_completes_goal(g, node)

\* ------------------------------------------------- properties of one search

\* The nodes a list of actions visits after the node c, in order.
RECURSIVE path_nodes(_, _)
path_nodes(c, actions) ==
    IF actions = <<>> THEN <<>>
    ELSE LET to_c == add_action(c, Head(actions))
         IN  <<to_c>> \o path_nodes(to_c, Tail(actions))

\* The node a list of actions ends on.
end_node(c, actions) ==
    IF actions = <<>> THEN c ELSE path_nodes(c, actions)[Len(actions)]

\* The total graph cost of a list of actions applied from c.
RECURSIVE path_cost(_, _, _)
path_cost(g, c, actions) ==
    IF actions = <<>> THEN 0
    ELSE LET to_c == add_action(c, Head(actions))
         IN  get_cost(g, Head(actions), to_c) + path_cost(g, to_c, Tail(actions))

\* Whether some legal sequence of at most len actions leads from c to a
\* goal-satisfying node at a total cost strictly below bound (every step of
\* every graph costs more than 0).
RECURSIVE cheaper_path_exists(_, _, _, _)
cheaper_path_exists(g, c, bound, len) ==
    IF bound <= 0 THEN FALSE
    ELSE IF node_completes_goal(g, c) THEN TRUE
    ELSE IF len = 0 THEN FALSE
    ELSE LET ans == get_valid_action_nodes(g, c)
         IN  \E k \in DOMAIN ans :
                cheaper_path_exists(g, ans[k][2],
                                    bound - get_cost(g, ans[k][1], ans[k][2]), len - 1)

\* C1: no node reached after the start by applying the returned actions in
\* order is a time-coordinate of the Constraints' forbidden set.
C1_ReturnedPathAvoidsForbidden ==
    outcome = "returned"
        => \A k \in 1..Len(solution) :
              ~tc_violates_constraint(graph.constraints, path_nodes(start, solution)[k])

\* C2: a returned action list, applied from the start node, ends in a node that
\* completes the goal; a search whose frontier emptied before a goal node was
\* popped returns no list.
C2_ReturnedPathEndsAtGoal ==
    outcome = "returned" => completes_goal(graph, end_node(start, solution))

\* C3: when the start node already satisfies the goal test, the search returns
\* the empty action list and raises neither error (any budget b >= 0).
C3_StartAtGoalReturnsEmptyList ==
    (pc \in {"done", "raised"} /\ node_completes_goal(graph, start))
        => (outcome = "returned" /\ solution = <<>>)

C3_Witness ==
    /\ pc = "done"
    /\ node_completes_goal(graph, start)
    /\ budget = 0
    /\ final_node = start
    /\ solution = <<>>

\* C4: a search with budget b ends in exactly one of three outcomes: a returned
\* list after a goal node was popped, NoSolutionError with the frontier empty
\* and no goal node popped, or SolutionNotFoundWithinBudgetError with the budget
\* exceeded and the frontier still non-empty; an empty frontier is never
\* reported as a budget error, nor an exceeded budget as no-solution.
C4_ThreeDistinctOutcomes ==
    /\ (pc \in {"done", "raised"}) <=> (outcome # "none")
    /\ outcome \in {"none", "returned", "NoSolutionError",
                    "SolutionNotFoundWithinBudgetError"}
    /\ outcome = "returned" =>
          (pc = "done" /\ node_completes_goal(graph, final_node))
    /\ outcome = "NoSolutionError" =>
          (pc = "raised" /\ frontier = {} /\ final_node = NoNode)
    /\ outcome = "SolutionNotFoundWithinBudgetError" =>
          (pc = "raised" /\ frontier # {} /\ iter > budget /\ final_node = NoNode)

C4_Witness ==
    /\ outcome = "NoSolutionError"
    /\ iter > budget
    /\ frontier = {}

\* C5: the total graph cost of a returned action sequence is minimal among all
\* legal action sequences from the start node to any goal-satisfying node.
C5_ReturnedPathHasMinimalCost ==
    outcome = "returned"
        => ~cheaper_path_exists(graph, start, path_cost(graph, start, solution),
                                MaxPathLen)

\* C6: for every node the search generated, the heuristic is at most the
\* minimal total cost of a legal action sequence from it to a goal node.
C6_HeuristicIsAdmissible ==
    pc \in {"done", "raised"}
        => \A n \in DOMAIN cost_so_far :
              ~cheaper_path_exists(graph, n, get_heuristic(graph, n), MaxPathLen)

\* ----------------------------------------------------------- search inputs

\* A 3x3 board: an opponent base tile in the middle, own base tiles in two
\* corners, rubble, a resource tile next to a base, an opponent heavy.
BoardA ==
    Board(3, 3, {XY(1, 1)}, <<XY(0, 0), XY(2, 2)>>, {[x |-> 1, y |-> 0, r |-> 40]},
          {XY(0, 1)}, {XY(2, 0)}, 50)

\* A 4x2 corridor: own base tiles at both ends of the upper row, heavy rubble.
BoardB ==
    Board(4, 2, {}, <<XY(0, 0), XY(3, 0)>>, {[x |-> 2, y |-> 1, r |-> 100]},
          {}, {}, 200)

Boards == {BoardA, BoardB}

Tiles(board) == { XY(x, y) : x \in 0..(board.W - 1), y \in 0..(board.H - 1) }

ValidTiles(board) == { c \in Tiles(board) : is_valid_c_for_player(board, c) }

\* The Constraints instances the searches run against.
ConstraintSets ==
    { Constraints({}, {}, 0, 0),
      Constraints({TC(1, 0, 1)}, {}, 1, 0),
      Constraints({TC(0, 0, 1), TC(1, 0, 1), TC(0, 1, 1)}, {}, 1, 0),
      Constraints({TC(2, 0, 2), TC(3, 0, 3), TC(2, 2, 3)}, {XY(2, 1)}, 3, 0) }

Budgets == {0, 2, MaxBudget}

GoalTiles(board) == {XY(0, 0), XY(2, 1), XY(board.W - 1, board.H - 1)}

\* (unit_type, time_to_power_cost): CONFIG.LIGHT_/HEAVY_TIME_TO_POWER_COST.
UnitKinds == {<<"LIGHT", 5>>, <<"HEAVY", 10>>}

StartNodes(board, p) == { Node(c.x, c.y, 0, 0, p, 0) : c \in ValidTiles(board) }

GoalGraphs(board, uk, cons) ==
    { Graph(v, board, uk[2], uk[1], cons, gl, 0, 1, NoC, NoC, FALSE, "ICE", 0) :
        v \in {"MoveTo", "MoveNear", "MoveRecklessNear"}, gl \in GoalTiles(board) }
    \cup { Graph("TilesToClear", board, 50, "HEAVY", Constraints({}, {}, 0, 0), gl, 0, 0,
                 NoC, NoC, FALSE, "ICE", 0) : gl \in GoalTiles(board) }
    \cup { Graph("DigAt", board, uk[2], uk[1], cons, gl, d, 0, NoC, NoC, FALSE, "ICE", 0) :
             gl \in GoalTiles(board), d \in 1..2 }

FleeGraphs(board, uk, cons) ==
    { Graph(v, board, uk[2], uk[1], cons, NoC, 0, 0, NoC, NoC, FALSE, "ICE", 0) :
        v \in {"FleeTowardsAnyFactory", "Evade"} }

PickupGraphs(board, uk, cons) ==
    { Graph("PickupPower", board, uk[2], uk[1], cons, NoC, 0, 0, NoC, ng, lp, "POWER", 0) :
        ng \in {NoC} \cup GoalTiles(board), lp \in BOOLEAN }

\* A pickup search for a unit whose battery is full.
FullBatteryPickups(board, uk, cons) ==
    { Graph("PickupPower", board, uk[2], uk[1], cons, NoC, 0, 0, NoC, NoC, FALSE, "POWER", 0) }

TransferGraphs(board, uk, cons) ==
    { Graph("TransferToFactory", board, uk[2], uk[1], cons, NoC, 0, 0, NoC, NoC, FALSE,
            res, 10) : res \in {"ICE", "POWER"} }
    \cup { Graph("TransferPowerToUnit", board, uk[2], uk[1], cons, gl, 0, 0, NoC, NoC,
                 FALSE, "POWER", 10) : gl \in GoalTiles(board) }

\* A 3x1 corridor with an own base tile at each end.
BoardC == Board(3, 1, {}, <<XY(0, 0), XY(2, 0)>>, {}, {}, {}, 50)

\* A transfer search to each own base of a board, the base given to the graph.
GivenFactoryTransfers ==
    UNION {
        { [g |-> ForFactory(Graph("TransferToFactory", board, 5, "LIGHT", cons, NoC, 0, 0,
                                  NoC, NoC, FALSE, "ICE", 10), {f}),
           start |-> s, budget |-> b] :
            f \in FactoryTiles(board), cons \in ConstraintSets,
            s \in StartNodes(board, 0), b \in Budgets }
        : board \in Boards \cup {BoardC} }

\* Every search run checked: a graph, a start node and a budget.
SearchScenarios ==
    GivenFactoryTransfers \cup
    UNION { UNION { UNION {
        { [g |-> g, start |-> s, budget |-> b] :
            g \in GoalGraphs(board, uk, cons) \cup FleeGraphs(board, uk, cons)
                  \cup PickupGraphs(board, uk, cons) \cup TransferGraphs(board, uk, cons),
            s \in StartNodes(board, 0), b \in Budgets }
        \cup
        { [g |-> g, start |-> s, budget |-> b] :
            g \in FullBatteryPickups(board, uk, cons),
            s \in StartNodes(board, UnitCfg(uk[1]).BATTERY_CAPACITY), b \in Budgets }
        \cup
        { [g |-> Graph("FleeDistance", board, uk[2], uk[1], cons, NoC, 0, dist,
                       XY(s.x, s.y), NoC, FALSE, "ICE", 0),
           start |-> s, budget |-> b] :
            s \in StartNodes(board, 0), b \in Budgets, dist \in 1..2 }
        : cons \in ConstraintSets } : uk \in UnitKinds } : board \in Boards }

\* get_actions_to_complete_goal(self, start, budget: int = 100)
DefaultBudget == 100

\* The 3 x 3 tiles of a base centred at c, row by row.
BaseTiles(c) == [i \in 1..9 |-> XY(c.x - 1 + ((i - 1) % 3), c.y - 1 + ((i - 1) \div 3))]

\* get_state(board_width=9, factory_positions=...) of tests/test_search.py:
\* an empty 9 x 9 board with the bases given.
TestBoard(opp, fac) == Board(9, 9, opp, fac, {}, {}, {}, 0)

\* _test_move_to_search: MoveToGraph for a LIGHT unit, time_to_power_cost 50,
\* searched with the default budget.
TestMoveTo(board, cons, s, gl) ==
    [g |-> Graph("MoveTo", board, 50, "LIGHT", cons, gl, 0, 1, NoC, NoC, FALSE, "ICE", 0),
     start |-> Node(s.x, s.y, 0, 0, 0, 0), budget |-> DefaultBudget]

\* test_neg_constraint_wait_now, and the same search without the constraint
WaitNow == TestMoveTo(TestBoard({}, <<>>), Constraints({TC(3, 2, 1)}, {}, 1, 0), XY(2, 2), XY(5, 2))

NoWait == TestMoveTo(TestBoard({}, <<>>), Constraints({}, {}, 0, 0), XY(2, 2), XY(5, 2))

\* test_around_opponent_factory
AroundOpponentFactory ==
    TestMoveTo(TestBoard({ BaseTiles(XY(2, 5))[i] : i \in 1..9 }, <<>>),
               Constraints({}, {}, 0, 0), XY(1, 3), XY(1, 7))

\* test_through_own_factory
ThroughOwnFactory ==
    TestMoveTo(TestBoard({}, BaseTiles(XY(2, 5))), Constraints({}, {}, 0, 0), XY(1, 3), XY(1, 7))

\* test_one_down_path
OneDownPath == TestMoveTo(TestBoard({}, <<>>), Constraints({}, {}, 0, 0), XY(3, 2), XY(3, 3))

\* _test_dig_at_search: DigAtGraph for a LIGHT unit, time_to_power_cost 50,
\* searched from DTC(x, y, 0, 0) with the default budget.
TestDigAt(board, cons, s, gl, d) ==
    [g |-> Graph("DigAt", board, 50, "LIGHT", cons, gl, d, 0, NoC, NoC, FALSE, "ICE", 0),
     start |-> Node(s.x, s.y, 0, 0, 0, 0), budget |-> DefaultBudget]

\* DigAtSearch.test_already_there_path
DigAlreadyThere == TestDigAt(TestBoard({}, <<>>), Constraints({}, {}, 0, 0), XY(3, 3), XY(3, 3), 3)

\* DigAtSearch.test_one_down_path
DigOneDown == TestDigAt(TestBoard({}, <<>>), Constraints({}, {}, 0, 0), XY(3, 2), XY(3, 3), 3)

\* DigAtSearch.test_neg_constraint_at_second_dig_possibility
DigSecondPossibility ==
    TestDigAt(Board(9, 9, {}, <<>>,
                    {[x |-> 5, y |-> 1, r |-> 20], [x |-> 5, y |-> 3, r |-> 20],
                     [x |-> 6, y |-> 2, r |-> 20]}, {}, {}, 0),
              Constraints({TC(5, 2, 5)}, {}, 5, 0), XY(2, 2), XY(5, 2), 3)

TestScenarios ==
    {WaitNow, NoWait, AroundOpponentFactory, ThroughOwnFactory, OneDownPath,
     DigAlreadyThere, DigOneDown, DigSecondPossibility}

\* The state after Search(graph) is constructed, for every run.
Init ==
    /\ \E sc \in SearchScenarios \cup TestScenarios :
          /\ graph = sc.g
          /\ start = sc.start
          /\ budget = sc.budget
    /\ frontier = {}
    /\ came_from = EmptyFcn
    /\ cost_so_far = EmptyFcn
    /\ iter = 0
    /\ current_node = NoNode
    /\ final_node = NoNode
    /\ solution = <<>>
    /\ pc = "new"
    /\ outcome = "none"
    /\ SchedIdle
    /\ DigIdle
    /\ GoalIdle
    /\ SupplyIdle
    /\ StageIdle
    /\ SimIdle
    /\ TurnIdle
    /\ OrdIdle
    /\ PassIdle
    /\ HashIdle

Next ==
    \/ InitSearch
    \/ RaiseNoSolution
    \/ RaiseBudget
    \/ PopGoal
    \/ Expand
    \/ Return

vars == <<searchVars, schedVars, digVars, goalVars, supplyVars, stageVars, simVars, turnVars,
          ordVars, passVars, hashVars>>

Spec == Init /\ [][Next]_vars

\* ------------------------------------------------- inputs of the older search

\* An open 3x3 board with one base tile and some rubble.
BoardE == Board(3, 3, {}, <<XY(2, 2)>>, {[x |-> 1, y |-> 1, r |-> 20]}, {}, {}, 50)

\* A 3x1 corridor with the base tile at its far end.
BoardL == Board(3, 1, {}, <<XY(2, 0)>>, {}, {}, {}, 50)

OldConstraintSets ==
    { Constraints({}, {}, 0, 0),
      Constraints({TC(1, 0, 1)}, {}, 1, 0),
      Constraints({TC(0, 0, 1), TC(1, 0, 1), TC(0, 1, 1)}, {}, 1, 40) }

OldStarts == {Node(0, 0, 0, 0, 0, 0), Node(1, 0, 0, 0, 0, 0)}

\* Every run of the older search checked: a graph and a start node.
OldSearchScenarios ==
    UNION { UNION {
        { [g |-> OldGraph("OldMoveTo", board, 5, "LIGHT", cons, gl, 0, NoC, NoC, 0),
           start |-> s] : gl \in {XY(2, 0), XY(0, 0)}, s \in OldStarts }
        \cup
        UNION { { [g |-> OldGraph("OldFleeTo", board, 5, "LIGHT", cons, XY(2, 0), 0,
                                  TC(s.x, s.y, s.t), opp, 0),
                   start |-> s] :
                     opp \in { c \in ValidTiles(board) : distance_to(c, s) = 1 } }
                : s \in OldStarts }
        \cup
        { [g |-> OldGraph("OldPickupPower", board, 10, "HEAVY", cons, NoC, 0, NoC, NoC, 50),
           start |-> s] : s \in OldStarts }
        \cup
        { [g |-> OldGraph("OldDigAt", board, 5, "LIGHT", cons, XY(1, 0), d, NoC, NoC, 0),
           start |-> s] : s \in OldStarts, d \in 1..2 }
        : cons \in OldConstraintSets } : board \in {BoardE, BoardL} }

\* The state after the older Search(graph) is constructed, for every run.
InitOld ==
    /\ \E sc \in OldSearchScenarios :
          /\ graph = sc.g
          /\ start = sc.start
    /\ budget = 0
    /\ frontier = {}
    /\ came_from = EmptyFcn
    /\ cost_so_far = EmptyFcn
    /\ iter = 0
    /\ current_node = NoNode
    /\ final_node = NoNode
    /\ solution = <<>>
    /\ pc = "new"
    /\ outcome = "none"
    /\ SchedIdle
    /\ DigIdle
    /\ GoalIdle
    /\ SupplyIdle
    /\ StageIdle
    /\ SimIdle
    /\ TurnIdle
    /\ OrdIdle
    /\ PassIdle
    /\ HashIdle

NextOld ==
    \/ InitSearch
    \/ OldPopGoal
    \/ OldExpand
    \/ OldExhausted
    \/ Return

SpecOld == InitOld /\ [][NextOld]_vars

\* --------------------------- Scheduler: resolve_goal_conflicts (agent.py)

\* Most units one resolve_goal_conflicts call or one factory is given.
MaxUnits == 3

\* get_unit_actions: last_step_goal._value = 1_000_000
ContinueValue == 1000000

\* The key no goal has: Python's None.
NoKey == "None"

SeqToSet(s) == { s[i] : i \in DOMAIN s }

RECURSIVE SumSeq(_)
SumSeq(s) == IF s = <<>> THEN 0 ELSE Head(s) + SumSeq(Tail(s))

RECURSIVE SortedSeq(_)
SortedSeq(S) ==
    IF S = {} THEN <<>>
    ELSE LET lo == SetMin(S) IN <<lo>> \o SortedSeq(S \ {lo})

\* The keys of one GoalCollection, in the order of its goals.
collection_keys(gc) == [j \in DOMAIN gc |-> gc[j][1]]

\* GoalCollection.get_key_values: the dict goal key -> goal value.
get_key_values(gc) ==
    [key \in SeqToSet(collection_keys(gc)) |->
        gc[CHOOSE j \in DOMAIN gc : gc[j][1] = key][2]]

\* GoalCollection.get_goal: the goal of the collection with this key, None
\* when it has none.
get_goal(gc, key) ==
    IF key \in DOMAIN get_key_values(gc) THEN key ELSE NoKey

\* pd.DataFrame(entries).columns: the keys of the dicts by first appearance.
RECURSIVE dataframe_columns(_, _, _)
dataframe_columns(entries, i, acc) ==
    IF i > Len(entries) THEN acc
    ELSE dataframe_columns(entries, i + 1,
            acc \o SelectSeq(collection_keys(entries[i]),
                             LAMBDA key : key \notin SeqToSet(acc)))

\* _create_cost_matrix: -1 * value, np.inf where the unit has no goal with the key.
create_cost_matrix(ugc) ==
    LET columns == dataframe_columns(ugc, 1, <<>>)
    IN  [columns |-> columns,
         cost |-> [i \in DOMAIN ugc |->
                     [c \in DOMAIN columns |->
                        IF columns[c] \in DOMAIN get_key_values(ugc[i])
                        THEN -1 * get_key_values(ugc[i])[columns[c]]
                        ELSE Inf]]]

\* The assignments linear_sum_assignment chooses among: min(rows, columns)
\* pairs, no row and no column twice, no pair of infinite cost.
feasible_assignments(cm) ==
    LET nr == Len(cm.cost)
        nc == Len(cm.columns)
    IN  UNION { { f \in [R -> 1..nc] :
                    /\ \A r1, r2 \in R : r1 # r2 => f[r1] # f[r2]
                    /\ \A r \in R : cm.cost[r][f[r]] < Inf }
                : R \in { S \in SUBSET (1..nr) : Cardinality(S) = Min2(nr, nc) } }

assignment_cost(cm, f) ==
    LET rs == SortedSeq(DOMAIN f)
    IN  SumSeq([k \in DOMAIN rs |-> cm.cost[rs[k]][f[rs[k]]]])

\* scipy.optimize.linear_sum_assignment: every (row_ind, col_ind) it may
\* return, row_ind sorted; the empty set when it raises ValueError ("cost
\* matrix is infeasible").
linear_sum_assignment(cm) ==
    LET F == feasible_assignments(cm)
    IN  { [rows |-> SortedSeq(DOMAIN f),
           cols |-> [k \in 1..Cardinality(DOMAIN f) |-> f[SortedSeq(DOMAIN f)[k]]]] :
          f \in { f1 \in F : \A f2 \in F : assignment_cost(cm, f1) <= assignment_cost(cm, f2) } }

\* np.argmax(rows == 4): the index of row 4 (counted from 0) in rows, the
\* first index when it is not there.
argmax_rows_is_4(rs) ==
    IF \E k \in DOMAIN rs : rs[k] = 5
    THEN CHOOSE k \in DOMAIN rs : rs[k] = 5
    ELSE 1

\* _solve_sum_assigment_problem without its last assignment: the list its
\* for loop builds, one key per row. The resolution C7 must tell apart from
\* the real one.
solve_sum_assigment_problem_loop(cm, rc) ==
    [i \in DOMAIN cm.cost |->
        IF i \notin SeqToSet(rc.rows) THEN NoKey
        ELSE cm.columns[rc.cols[argmax_rows_is_4(rc.rows)]]]

\* _solve_sum_assigment_problem: goal_keys = [cost_matrix.columns[c] for c in cols]
solve_sum_assigment_problem(cm, rc) ==
    [k \in DOMAIN rc.cols |-> cm.columns[rc.cols[k]]]

\* _get_unit_goals pairing every unit with the key zip hands it, whether or
\* not the unit has a goal with that key: what C19 must tell apart from the
\* real pairing.
get_unit_goals_any_key(ugc, gk) ==
    [k \in 1..Min2(Len(gk), Len(ugc)) |-> <<k, gk[k]>>]

\* _get_unit_goals and the filter of resolve_goal_conflicts: zip pairs the
\* k-th key with the k-th unit; pairs whose goal is None are dropped.
get_unit_goals(ugc, gk) ==
    LET zipped == [k \in 1..Min2(Len(gk), Len(ugc)) |-> <<k, get_goal(ugc[k], gk[k])>>]
    IN  SelectSeq(zipped, LAMBDA ug : ug[2] # NoKey)

\* resolve_goal_conflicts: if not unit_goal_collections: return []
ResolveEmpty ==
    /\ rpc = "start"
    /\ unit_goal_collections = <<>>
    /\ unit_goals' = <<>>
    /\ rpc' = "done"
    /\ UNCHANGED <<unit_goal_collections, cost_matrix, rows, cols, goal_keys,
                   factory_units, round_result>>
    /\ UNCHANGED <<searchVars, digVars, goalVars, supplyVars, stageVars, simVars,
                   turnVars, ordVars, passVars, hashVars>>

\* resolve_goal_conflicts: cost_matrix = _create_cost_matrix(unit_goal_collections)
CreateCostMatrix ==
    /\ rpc = "start"
    /\ unit_goal_collections # <<>>
    /\ cost_matrix' = create_cost_matrix(unit_goal_collections)
    /\ rpc' = "matrix"
    /\ UNCHANGED <<unit_goal_collections, rows, cols, goal_keys, unit_goals,
                   factory_units, round_result>>
    /\ UNCHANGED <<searchVars, digVars, goalVars, supplyVars, stageVars, simVars,
                   turnVars, ordVars, passVars, hashVars>>

\* resolve_goal_conflicts: goal_keys = _solve_sum_assigment_problem(cost_matrix)
SolveSumAssigmentProblem ==
    /\ rpc = "matrix"
    /\ \E rc \in linear_sum_assignment(cost_matrix) :
          /\ rows' = rc.rows
          /\ cols' = rc.cols
          /\ goal_keys' = solve_sum_assigment_problem(cost_matrix, rc)
    /\ rpc' = "solved"
    /\ UNCHANGED <<unit_goal_collections, cost_matrix, unit_goals, factory_units,
                   round_result>>
    /\ UNCHANGED <<searchVars, digVars, goalVars, supplyVars, stageVars, simVars,
                   turnVars, ordVars, passVars, hashVars>>

\* _solve_sum_assigment_problem: linear_sum_assignment raises ValueError
SolveRaises ==
    /\ rpc = "matrix"
    /\ linear_sum_assignment(cost_matrix) = {}
    /\ rpc' = "raised"
    /\ UNCHANGED <<unit_goal_collections, cost_matrix, rows, cols, goal_keys,
                   unit_goals, factory_units, round_result>>
    /\ UNCHANGED <<searchVars, digVars, goalVars, supplyVars, stageVars, simVars,
                   turnVars, ordVars, passVars, hashVars>>

\* resolve_goal_conflicts: unit_goals = _get_unit_goals(...), filtered, returned
GetUnitGoals ==
    /\ rpc = "solved"
    /\ unit_goals' = get_unit_goals(unit_goal_collections, goal_keys)
    /\ rpc' = "done"
    /\ UNCHANGED <<unit_goal_collections, cost_matrix, rows, cols, goal_keys,
                   factory_units, round_result>>
    /\ UNCHANGED <<searchVars, digVars, goalVars, supplyVars, stageVars, simVars,
                   turnVars, ordVars, passVars, hashVars>>

\* ------------------- Scheduler: the factory's collect rounds (factory.py)

NoGoal == [kind |-> "none", c |-> NoC]

DigGoal(kind, c) == [kind |-> kind, c |-> c]

\* UnitGoal.key of the dig goals: collect_ore_[c], collect_ice_[c], clear_rubble_[c]
goal_key(goal) == <<goal.kind, goal.c>>

\* Board.ore_positions_set
ore_positions_set == {XY(0, 0), XY(1, 1)}

\* Board.ice_positions_set
ice_positions_set == {XY(2, 0)}

\* Factory._rubble_positions_to_clear_for_ore
rubble_positions_to_clear_for_ore == {XY(0, 1)}

\* Factory._rubble_positions_to_clear_for_ice
rubble_positions_to_clear_for_ice == {XY(2, 1)}

\* Unit.is_scheduled, for the units of this model: the unit holds a goal.
is_scheduled(fu, u) == fu[u].goal # NoGoal

\* Factory.available_units
available_units(fu) == { u \in DOMAIN fu : ~is_scheduled(fu, u) }

\* Factory.heavy_available_units
heavy_available_units(fu) == { u \in available_units(fu) : fu[u].is_heavy }

\* Factory.light_available_units
light_available_units(fu) == { u \in available_units(fu) : ~fu[u].is_heavy }

\* GameState.positions_in_dig_goals
positions_in_dig_goals(fu) == { fu[u].goal.c : u \in { v \in DOMAIN fu : is_scheduled(fu, v) } }

\* GameState.positions_in_heavy_dig_goals
positions_in_heavy_dig_goals(fu) ==
    { fu[u].goal.c : u \in { v \in DOMAIN fu : is_scheduled(fu, v) /\ fu[v].is_heavy } }

\* Factory.get_rubble_positions_to_clear_for_ore / _for_ice
get_rubble_positions_to_clear(fu, rubble) == rubble \ positions_in_dig_goals(fu)

\* _schedule_unit_on_ore_pos / _ice_pos / _rubble_pos with get_best_assignment:
\* the (unit, goal) pairs it may return. Which pair has the best value per step
\* is up to the plans; NoValidGoalFoundError when there is no pair or the
\* best goal has no valid version.
schedule_unit_on_pos(kind, positions, us) ==
    { [unit |-> u, goal |-> DigGoal(kind, c)] : u \in us, c \in positions }

NoValidGoalFoundError == [unit |-> 0, goal |-> NoGoal]

\* _schedule_heavy_on_ore / _schedule_heavy_on_ice
schedule_heavy_on(fu, kind, positions) ==
    schedule_unit_on_pos(kind, positions \ positions_in_heavy_dig_goals(fu),
                         heavy_available_units(fu))
    \cup {NoValidGoalFoundError}

\* _schedule_light_on_ore / _schedule_light_on_ice
schedule_light_on(fu, kind, positions) ==
    schedule_unit_on_pos(kind, positions \ positions_in_dig_goals(fu),
                         light_available_units(fu))

\* _schedule_light_on_ore_task / _schedule_light_on_ice_task: on any exception
\* of the collect round, a light unit clears rubble on the way to the resource.
schedule_light_on_task(fu, kind, positions, rubble) ==
    schedule_light_on(fu, kind, positions)
    \cup (IF get_rubble_positions_to_clear(fu, rubble) = {} THEN {}
          ELSE schedule_unit_on_pos("clear_rubble", get_rubble_positions_to_clear(fu, rubble),
                                    light_available_units(fu)))
    \cup {NoValidGoalFoundError}

\* schedule_strategy_collect_ore / schedule_strategy_collect_ice
schedule_strategy_collect(fu, kind, positions, rubble) ==
    IF heavy_available_units(fu) # {}
    THEN schedule_heavy_on(fu, kind, positions)
    ELSE schedule_light_on_task(fu, kind, positions, rubble)

\* The scheduler commits the goal a round returned: the unit holds it, and a
\* unit that held a dig goal on the same tile is unscheduled.
schedule_goal(fu, r) ==
    IF r = NoValidGoalFoundError THEN fu
    ELSE [u \in DOMAIN fu |->
            IF u = r.unit THEN [fu[u] EXCEPT !.goal = r.goal]
            ELSE IF is_scheduled(fu, u) /\ fu[u].goal.c = r.goal.c
                 THEN [fu[u] EXCEPT !.goal = NoGoal]
                 ELSE fu[u]]

\* One round of schedule_units with strategy COLLECT_ORE, and its commit.
ScheduleCollectOre ==
    /\ available_units(factory_units) # {}
    /\ \E r \in schedule_strategy_collect(factory_units, "collect_ore", ore_positions_set,
                                          rubble_positions_to_clear_for_ore) :
          /\ factory_units' = schedule_goal(factory_units, r)
          /\ round_result' = r
    /\ UNCHANGED <<unit_goal_collections, cost_matrix, rows, cols, goal_keys, unit_goals,
                   rpc>>
    /\ UNCHANGED <<searchVars, digVars, goalVars, supplyVars, stageVars, simVars,
                   turnVars, ordVars, passVars, hashVars>>

\* One round of schedule_units with strategy COLLECT_ICE, and its commit.
ScheduleCollectIce ==
    /\ available_units(factory_units) # {}
    /\ \E r \in schedule_strategy_collect(factory_units, "collect_ice", ice_positions_set,
                                          rubble_positions_to_clear_for_ice) :
          /\ factory_units' = schedule_goal(factory_units, r)
          /\ round_result' = r
    /\ UNCHANGED <<unit_goal_collections, cost_matrix, rows, cols, goal_keys, unit_goals,
                   rpc>>
    /\ UNCHANGED <<searchVars, digVars, goalVars, supplyVars, stageVars, simVars,
                   turnVars, ordVars, passVars, hashVars>>

\* A unit completes its goal: remove_goal_and_private_action_plan.
CompleteGoal ==
    /\ \E u \in DOMAIN factory_units :
          /\ is_scheduled(factory_units, u)
          /\ factory_units' = [factory_units EXCEPT ![u].goal = NoGoal]
    /\ round_result' = "none"
    /\ UNCHANGED <<unit_goal_collections, cost_matrix, rows, cols, goal_keys, unit_goals,
                   rpc>>
    /\ UNCHANGED <<searchVars, digVars, goalVars, supplyVars, stageVars, simVars,
                   turnVars, ordVars, passVars, hashVars>>

\* ------------------------------------------------- the scheduler's claims

committed_value ==
    SumSeq([k \in DOMAIN unit_goals |->
              get_key_values(unit_goal_collections[unit_goals[k][1]])[unit_goals[k][2]]])

\* Every way to give each unit one of its own goals or none, no key twice.
conflict_free_assignments ==
    { f \in [DOMAIN unit_goal_collections -> {"A", "B", "C", NoKey}] :
        /\ \A i \in DOMAIN f :
              f[i] # NoKey => f[i] \in DOMAIN get_key_values(unit_goal_collections[i])
        /\ \A i, j \in DOMAIN f : (i # j /\ f[i] # NoKey) => f[i] # f[j] }

assignment_value(f) ==
    SumSeq([i \in DOMAIN f |->
              IF f[i] = NoKey THEN 0 ELSE get_key_values(unit_goal_collections[i])[f[i]]])

\* C8: the committed assignment maximises the sum of values over all
\* conflict-free unit-to-key assignments of the value matrix.
C8_CommittedValueIsMaximal ==
    rpc \in {"done", "raised"} =>
        \A f \in conflict_free_assignments : committed_value >= assignment_value(f)

\* C9: every unit is paired with the key of the column the assignment gave to
\* its own row, and a unit whose row received no column is committed to nothing.
C9_UnitGetsKeyOfItsOwnRow ==
    rpc = "done" =>
        \A i \in DOMAIN unit_goal_collections :
            IF \E k \in DOMAIN rows : rows[k] = i
            THEN \E k \in DOMAIN rows :
                    /\ rows[k] = i
                    /\ <<i, cost_matrix.columns[cols[k]]>> \in SeqToSet(unit_goals)
            ELSE \A ug \in SeqToSet(unit_goals) : ug[1] # i

\* ------------------------------------------------ inputs of the scheduler

\* The goal collections one unit may bring: goals with keys A (valued 1
\* or 5), B and C (valued 1), or the single goal a unit with a queue continues.
UnitCollections ==
    ({ (IF a = 0 THEN <<>> ELSE << <<"A", a>> >>)
      \o (IF b = 0 THEN <<>> ELSE << <<"B", b>> >>)
      \o (IF c = 0 THEN <<>> ELSE << <<"C", c>> >>) :
        a \in {0, 1, 5}, b \in {0, 1}, c \in {0, 1} } \ {<<>>})
    \cup { << <<"A", ContinueValue>> >> }

\* No search is in progress.
SearchIdle ==
    /\ graph = [variant |-> "none"]
    /\ start = NoNode
    /\ budget = 0
    /\ frontier = {}
    /\ came_from = EmptyFcn
    /\ cost_so_far = EmptyFcn
    /\ iter = 0
    /\ current_node = NoNode
    /\ final_node = NoNode
    /\ solution = <<>>
    /\ pc = "idle"
    /\ outcome = "none"

\* Either resolve_goal_conflicts is called with up to MaxUnits units, or a
\* factory with up to MaxUnits unscheduled units starts its rounds.
InitSched ==
    /\ SearchIdle
    /\ DigIdle
    /\ GoalIdle
    /\ SupplyIdle
    /\ StageIdle
    /\ SimIdle
    /\ TurnIdle
    /\ OrdIdle
    /\ PassIdle
    /\ HashIdle
    /\ cost_matrix = [columns |-> <<>>, cost |-> <<>>]
    /\ rows = <<>>
    /\ cols = <<>>
    /\ goal_keys = <<>>
    /\ unit_goals = <<>>
    /\ round_result = "none"
    /\ \/ /\ \E n \in 0..MaxUnits : unit_goal_collections \in [1..n -> UnitCollections]
          /\ rpc = "start"
          /\ factory_units = <<>>
       \/ /\ unit_goal_collections = <<>>
          /\ rpc = "idle"
          /\ \E n \in 1..MaxUnits :
                factory_units \in [1..n -> { [is_heavy |-> h, goal |-> NoGoal] : h \in BOOLEAN }]

NextSched ==
    \/ ResolveEmpty
    \/ CreateCostMatrix
    \/ SolveSumAssigmentProblem
    \/ SolveRaises
    \/ GetUnitGoals
    \/ ScheduleCollectOre
    \/ ScheduleCollectIce
    \/ CompleteGoal

SpecSched == InitSched /\ [][NextSched]_vars

\* ------------------------- the dig leg of a goal (unit_goal.py, goal.py)

\* Longest dig leg handed to find_max_dig_actions_can_still_reach_factory.
MaxLegLen == 5

\* UnitGoal._get_nr_digs_in_actions: sum of dig_action.n over the dig actions;
\* the leg is a list of primitive actions, each with n = 1.
get_nr_digs_in_actions(actions) ==
    SumSeq([k \in DOMAIN actions |-> IF actions[k].kind = "dig" THEN 1 ELSE 0])

\* raise ValueError(f"Only found {nr_added_actions}, of the required {n} actions")
ValueError == [raised |-> TRUE, actions |-> <<>>]

Returned(actions) == [raised |-> FALSE, actions |-> actions]

\* The loop of _get_actions_up_to_n_digs from the k-th action on, with
\* nr_added_actions digs added so far.
RECURSIVE actions_up_to_n_digs_from(_, _, _, _)
actions_up_to_n_digs_from(actions, n, k, nr_added_actions) ==
    IF k > Len(actions) THEN ValueError
    ELSE IF actions[k].kind = "dig" /\ nr_added_actions + 1 = n
         THEN Returned(SubSeq(actions, 1, k))
         ELSE actions_up_to_n_digs_from(actions, n, k + 1,
                  IF actions[k].kind = "dig" THEN nr_added_actions + 1
                  ELSE nr_added_actions)

\* _get_actions_up_to_n_digs with nr_added_actions += 1 outside the isinstance
\* test: it counts every action. The cut C10 must tell apart from the real one.
get_actions_up_to_n_actions(actions, n) ==
    IF n = 0 THEN Returned(<<>>)
    ELSE IF n >= 1 /\ n <= Len(actions) THEN Returned(SubSeq(actions, 1, n))
    ELSE ValueError

\* UnitGoal._get_actions_up_to_n_digs
get_actions_up_to_n_digs(actions, n) ==
    IF n = 0 THEN Returned(<<>>) ELSE actions_up_to_n_digs_from(actions, n, 1, 0)

\* find_max_dig_actions_can_still_reach_factory: mid = (high + low) // 2, and
\* mid += 1 if mid == low
get_mid(lo, hi) ==
    IF (hi + lo) \div 2 = lo THEN (hi + lo) \div 2 + 1 ELSE (hi + lo) \div 2

\* UnitGoal._unit_can_still_reach_factory of the plan with the leg cut after
\* n digs; CollectIceGoal tests its plan with n digs the same way, and no plan
\* with more digs than the leg has can be carried out.
unit_can_still_reach_factory(n) == n \in DOMAIN can_reach /\ can_reach[n]

\* find_max_dig_actions_can_still_reach_factory: low = 0, high = the digs of the leg
DigStart ==
    /\ dpc = "start"
    /\ low' = 0
    /\ high' = get_nr_digs_in_actions(leg_actions)
    /\ dpc' = "loop"
    /\ UNCHANGED <<leg_actions, can_reach, dig_result, n_digging, best_n, lpc>>
    /\ UNCHANGED <<searchVars, schedVars, goalVars, supplyVars, stageVars, simVars,
                   turnVars, ordVars, passVars, hashVars>>

\* find_max_dig_actions_can_still_reach_factory: one iteration of while low < high
DigLoop ==
    /\ dpc = "loop"
    /\ low < high
    /\ LET mid == get_mid(low, high)
           potential_actions == get_actions_up_to_n_digs(leg_actions, mid)
       IN  IF potential_actions.raised
           THEN /\ dpc' = "raised"
                /\ UNCHANGED <<low, high>>
           ELSE /\ dpc' = "loop"
                /\ IF unit_can_still_reach_factory(mid)
                   THEN low' = mid /\ high' = high
                   ELSE low' = low /\ high' = mid - 1
    /\ UNCHANGED <<leg_actions, can_reach, dig_result, n_digging, best_n, lpc>>
    /\ UNCHANGED <<searchVars, schedVars, goalVars, supplyVars, stageVars, simVars,
                   turnVars, ordVars, passVars, hashVars>>

\* find_max_dig_actions_can_still_reach_factory: the cut at low is returned
DigReturn ==
    /\ dpc = "loop"
    /\ ~(low < high)
    /\ LET actions == get_actions_up_to_n_digs(leg_actions, low)
       IN  IF actions.raised
           THEN dpc' = "raised" /\ UNCHANGED dig_result
           ELSE dpc' = "done" /\ dig_result' = actions.actions
    /\ UNCHANGED <<leg_actions, can_reach, low, high, n_digging, best_n, lpc>>
    /\ UNCHANGED <<searchVars, schedVars, goalVars, supplyVars, stageVars, simVars,
                   turnVars, ordVars, passVars, hashVars>>

\* CollectIceGoal._add_max_dig_action: one more dig can be carried out
AddMaxDigStep ==
    /\ lpc = "loop"
    /\ unit_can_still_reach_factory(n_digging)
    /\ best_n' = n_digging
    /\ n_digging' = n_digging + 1
    /\ UNCHANGED <<leg_actions, can_reach, low, high, dig_result, dpc, lpc>>
    /\ UNCHANGED <<searchVars, schedVars, goalVars, supplyVars, stageVars, simVars,
                   turnVars, ordVars, passVars, hashVars>>

\* CollectIceGoal._add_max_dig_action: the plan cannot be carried out: break
AddMaxDigBreak ==
    /\ lpc = "loop"
    /\ ~unit_can_still_reach_factory(n_digging)
    /\ lpc' = "done"
    /\ UNCHANGED <<leg_actions, can_reach, low, high, dig_result, dpc, n_digging, best_n>>
    /\ UNCHANGED <<searchVars, schedVars, goalVars, supplyVars, stageVars, simVars,
                   turnVars, ordVars, passVars, hashVars>>

\* CollectIceGoal._add_max_dig_action: if best_n: append DigAction(n=best_n);
\* the digs it adds, best_n = -1 standing for None.
max_dig_action_n(bn) == IF bn > 0 THEN bn ELSE 0

\* ------------------------------------------------------ the dig leg's claim

\* The predicate is non-increasing in the number of digs kept.
non_increasing ==
    \A a, b \in DOMAIN can_reach : (a < b /\ can_reach[b]) => can_reach[a]

\* The largest count in 1..N the unit can still reach a factory with, 0 if none.
largest_feasible ==
    LET ok == { n \in 1..get_nr_digs_in_actions(leg_actions) : can_reach[n] }
    IN  IF ok = {} THEN 0 ELSE CHOOSE n \in ok : \A o \in ok : o <= n

\* The count that testing 1, 2, ..., N one by one stops at.
one_by_one ==
    LET ok == { n \in 0..get_nr_digs_in_actions(leg_actions) :
                  \A o \in 1..n : can_reach[o] }
    IN  CHOOSE n \in ok : \A o \in ok : o <= n

\* The prefix of the leg that ends at its n-th dig, empty when n = 0.
prefix_to_nth_dig(n) ==
    IF n = 0 THEN <<>>
    ELSE SubSeq(leg_actions, 1,
                CHOOSE k \in DOMAIN leg_actions :
                    /\ leg_actions[k].kind = "dig"
                    /\ get_nr_digs_in_actions(SubSeq(leg_actions, 1, k)) = n)

\* C10: with a predicate that is non-increasing in the digs kept, the binary
\* search returns the prefix of the leg ending at the n-th dig, n the largest
\* count the unit can still reach a factory with; n is what testing the counts
\* one by one gives, and what the linear _add_max_dig_action settles on.
C10_BinarySearchFindsLargestFeasibleDigCount ==
    non_increasing =>
        /\ dpc # "raised"
        /\ dpc = "done" =>
              /\ low = largest_feasible
              /\ low = one_by_one
              /\ dig_result = prefix_to_nth_dig(largest_feasible)
              /\ lpc = "done" => max_dig_action_n(best_n) = low

\* Both searches ended on a leg that starts with a move, strictly between no
\* dig and all digs.
C10_Witness ==
    /\ non_increasing
    /\ dpc = "done"
    /\ lpc = "done"
    /\ low > 0
    /\ low < get_nr_digs_in_actions(leg_actions)
    /\ Len(dig_result) > low
    /\ max_dig_action_n(best_n) = low

\* ----------------------------------------------------- inputs of the dig leg

\* The legs: primitive moves and digs in any order, up to MaxLegLen actions.
Legs ==
    UNION { [1..n -> {MoveAction("RIGHT"), DigAction}] : n \in 0..MaxLegLen }

\* A leg with its predicate, before either search starts.
InitDig ==
    /\ SearchIdle
    /\ SchedIdle
    /\ GoalIdle
    /\ SupplyIdle
    /\ StageIdle
    /\ SimIdle
    /\ TurnIdle
    /\ OrdIdle
    /\ PassIdle
    /\ HashIdle
    /\ leg_actions \in Legs
    /\ can_reach \in [0..get_nr_digs_in_actions(leg_actions) -> BOOLEAN]
    /\ low = 0
    /\ high = 0
    /\ dig_result = <<>>
    /\ dpc = "start"
    /\ n_digging = 0
    /\ best_n = -1
    /\ lpc = "loop"

NextDig ==
    \/ DigStart
    \/ DigLoop
    \/ DigReturn
    \/ AddMaxDigStep
    \/ AddMaxDigBreak

SpecDig == InitDig /\ [][NextDig]_vars

\* ---------------- goals: validity and value (unit_goal.py, factory_goal.py)

\* Constraints.max_power_request is None
NoMaxPowerRequest == -1

UnitGoalTypes ==
    {"CollectIceGoal", "CollectOreGoal", "ClearRubbleGoal", "FleeGoal", "ActionQueueGoal",
     "UnitNoGoal"}

FactoryGoalTypes == {"BuildHeavyGoal", "BuildLightGoal", "WaterGoal", "FactoryNoGoal"}

\* A goal, and for an ActionQueueGoal the class of the goal it continues.
GoalOf(type, wrapped) == [type |-> type, wrapped |-> wrapped]

\* The _is_valid every goal would have if no class set its own: the default
\* None of the field of UnitGoal and FactoryGoal. What C11 must tell apart
\* from the classes as written.
field_default_is_valid(type) == "None"

\* _is_valid of a goal right after construction: the field of UnitGoal and
\* FactoryGoal has default None and init=False, so __init__ assigns nothing and
\* the attribute read is the one of the nearest class that sets it.
class_is_valid(type) ==
    IF type \in {"FleeGoal", "ActionQueueGoal", "UnitNoGoal", "WaterGoal", "FactoryNoGoal"}
    THEN "True"
    ELSE "None"

\* str(b) of a bool
Bool(b) == IF b THEN "True" ELSE "False"

\* FactoryAction.requested_power of the one action of a factory plan.
requested_power(type) ==
    CASE type = "BuildHeavyGoal" -> 500
      [] type = "BuildLightGoal" -> 50
      [] OTHER -> 0

\* Factory.center_tc of the factory the factory goals belong to.
center_tc == TC(1, 1, 0)

\* FactoryActionPlan.time_coordinates: the centre tile at the turn of every
\* BuildAction of the plan, turns counted from center_tc.t + 1.
factory_time_coordinates(type) ==
    IF type \in {"BuildHeavyGoal", "BuildLightGoal"}
    THEN {TC(center_tc.x, center_tc.y, center_tc.t + 1)}
    ELSE {}

\* The FactoryActionPlan generate_action_plan of a factory goal builds.
factory_action_plan(type) ==
    Plan(CASE type = "BuildHeavyGoal" -> <<"BuildHeavyAction">>
           [] type = "BuildLightGoal" -> <<"BuildLightAction">>
           [] type = "WaterGoal" -> <<"WaterAction">>
           [] OTHER -> <<>>,
         factory_time_coordinates(type), requested_power(type))

\* UnitActionPlan.time_coordinates: the time-coordinates the unit is at after
\* each action of the plan, from tc on.
RECURSIVE unit_time_coordinates(_, _)
unit_time_coordinates(tc, actions) ==
    IF actions = <<>> THEN {}
    ELSE LET to_c == add_action(Node(tc.x, tc.y, tc.t, 0, 0, 0), Head(actions))
         IN  {TC(to_c.x, to_c.y, to_c.t)}
             \cup unit_time_coordinates(TC(to_c.x, to_c.y, to_c.t), Tail(actions))

\* UnitActionPlan.nr_digs
nr_digs(plan) == get_nr_digs_in_actions(plan.actions)

\* UnitActionPlan.get_power_used on a board without rubble.
get_power_used(plan, unit_type) ==
    SumSeq([k \in DOMAIN plan.actions |->
              IF plan.actions[k].kind = "dig" THEN UnitCfg(unit_type).DIG_COST
              ELSE IF is_stationary(plan.actions[k]) THEN 0
              ELSE UnitCfg(unit_type).MOVE_COST])

\* UnitGoal._get_cost_plan: number_of_steps * time_to_power_cost + power_cost
get_cost_plan(plan, uk) == Len(plan.actions) * uk[2] + get_power_used(plan, uk[1])

\* The unit of the unit goals: its type and its time_to_power_cost.
goal_unit == <<"LIGHT", 5>>

\* get_value_action_plan of every goal class but ActionQueueGoal, in units of
\* 1 / CostScale. The floor -10000000000 of ClearRubbleGoal is beyond the
\* integers at hand: -20000000 stands for it, below every other value.
plain_value_action_plan(type, plan) ==
    CASE type \in {"CollectIceGoal", "CollectOreGoal"} ->
            (100 * nr_digs(plan) * CostScale) \div get_cost_plan(plan, goal_unit)
      [] type = "ClearRubbleGoal" ->
            IF Len(plan.actions) = 0 THEN -20000000 * CostScale
            ELSE (100 * nr_digs(plan) * CostScale) \div get_cost_plan(plan, goal_unit)
      [] type = "FleeGoal" -> 1000 * CostScale
      [] type = "BuildHeavyGoal" -> 10000 * CostScale
      [] type = "BuildLightGoal" -> 1000 * CostScale
      [] type = "WaterGoal" -> 100 * CostScale
      [] type \in {"UnitNoGoal", "FactoryNoGoal"} -> 0

\* ActionQueueGoal.get_value_action_plan without the test of the threat: the
\* valuation C16 must tell apart from the real one.
get_value_action_plan_no_threat(g, plan, threat) ==
    IF g.type = "ActionQueueGoal"
    THEN plain_value_action_plan(g.wrapped, plan) + 100000 * CostScale
    ELSE plain_value_action_plan(g.type, plan)

\* get_value_action_plan of a goal; ActionQueueGoal: -1000 under threat with a
\* stationary first action, else the value of the wrapped goal + 100_000.
get_value_action_plan(g, plan, threat) ==
    IF g.type = "ActionQueueGoal"
    THEN IF threat /\ is_stationary(plan.actions[1])
         THEN -1000 * CostScale
         ELSE plain_value_action_plan(g.wrapped, plan) + 100000 * CostScale
    ELSE plain_value_action_plan(g.type, plan)

\* FactoryGoal.set_validity_plan: the _is_valid it sets.
set_validity_plan(plan, cons) ==
    IF \E tc \in plan.time_coordinates : tc_violates_constraint(cons, tc) THEN FALSE
    ELSE IF /\ cons.max_power_request # NoMaxPowerRequest
            /\ cons.max_power_request # 0
            /\ plan.power_requested > cons.max_power_request
         THEN FALSE
         ELSE TRUE

\* A check of the parent's plan that looks at the time-coordinates alone: what
\* C39 must tell apart from _parent_solution_is_valid.
parent_solution_is_valid_ignoring_power(plan, cons) ==
    ~\E tc \in plan.time_coordinates : tc_violates_constraint(cons, tc)

\* UnitGoal._parent_solution_is_valid
parent_solution_is_valid(plan, cons) ==
    IF \E tc \in plan.time_coordinates : tc_violates_constraint(cons, tc) THEN FALSE
    ELSE IF /\ cons.max_power_request # NoMaxPowerRequest
            /\ plan.power_requested > cons.max_power_request
         THEN FALSE
         ELSE TRUE

\* The _is_valid a unit goal has after _generate_action_plan built this plan.
\* CollectGoal and ClearRubbleGoal: False when no dig was kept, else True;
\* FleeGoal: False when no move was kept; the others leave it alone.
generated_is_valid(type, plan, before) ==
    CASE type \in {"CollectIceGoal", "CollectOreGoal", "ClearRubbleGoal"} ->
            Bool(nr_digs(plan) > 0)
      [] type = "FleeGoal" -> IF Len(plan.actions) = 0 THEN "False" ELSE before
      [] OTHER -> before

\* ------------------------------------------------- inputs of the goals

\* Longest plan a unit goal is generated with.
MaxGoalPlanLen == 2

\* The Constraints a goal is generated and checked against.
GoalConstraintSets ==
    { Constraints(neg, {}, 0, m) :
        neg \in {{}, {TC(1, 1, 1)}},
        m \in {NoMaxPowerRequest, 0, 50, 500} }

\* TimeCoordinate of the unit of the unit goals.
goal_unit_tc == TC(0, 1, 0)

\* The UnitActionPlan of these actions: an optional pickup of 100 power at the
\* start is what it requests of the factory.
UnitPlan(pickup, actions) ==
    LET all == (IF pickup THEN <<PickupAction(100)>> ELSE <<>>) \o actions
    IN  Plan(all, unit_time_coordinates(goal_unit_tc, all), IF pickup THEN 100 ELSE 0)

\* The plans _generate_action_plan of a unit goal may build.
UnitPlans ==
    { UnitPlan(pickup, actions) :
        pickup \in BOOLEAN,
        actions \in UNION { [1..n -> {MoveAction("CENTER"), MoveAction("RIGHT"), DigAction}] :
                            n \in 0..MaxGoalPlanLen } }

\* CollectGoal._add_transfer_action: the plan with the transfer appended.
add_transfer_action(plan) ==
    LET all == Append(plan.actions, TransferAction("CENTER", 100))
    IN  Plan(all, unit_time_coordinates(goal_unit_tc, all), plan.power_requested)

\* The plans _generate_action_plan of this goal may build.
PlansOf(g, plan) ==
    CASE g.type = "UnitNoGoal" -> {Plan(<<>>, {}, 0)}
      [] g.type = "ActionQueueGoal" -> {plan}
      [] g.type \in {"CollectIceGoal", "CollectOreGoal"} ->
            { add_transfer_action(p) : p \in UnitPlans }
      [] OTHER -> UnitPlans

\* ------------------------------------------------- the life of one goal

\* generate_action_plan(game_state, constraints) of the goal
GenerateActionPlan ==
    /\ gpc = "new"
    /\ IF cur_goal.type \in FactoryGoalTypes
       THEN /\ goal_plan' = factory_action_plan(cur_goal.type)
            /\ goal_is_valid' =
                  IF cur_goal.type = "FactoryNoGoal" THEN goal_is_valid
                  ELSE Bool(set_validity_plan(factory_action_plan(cur_goal.type), goal_cons))
       ELSE \E plan \in PlansOf(cur_goal, goal_plan) :
                /\ goal_plan' = plan
                /\ goal_is_valid' = generated_is_valid(cur_goal.type, plan, goal_is_valid)
    /\ gpc' = "generated"
    /\ UNCHANGED <<cur_goal, is_under_threath, goal_value, goal_cons, parent_valid, goal_read>>
    /\ UNCHANGED <<searchVars, schedVars, digVars, supplyVars, stageVars, simVars,
                   turnVars, ordVars, passVars, hashVars>>

\* generate_action_plan again, with constraints whose parent's solution is in
\* solution_hash: _parent_solution_is_valid(parent_solution, constraints)
ParentSolutionIsValid ==
    /\ gpc = "generated"
    /\ cur_goal.type \in UnitGoalTypes
    /\ parent_valid = "None"
    /\ \E cons \in GoalConstraintSets :
          /\ goal_cons' = cons
          /\ parent_valid' = Bool(parent_solution_is_valid(goal_plan, cons))
    /\ UNCHANGED <<cur_goal, is_under_threath, goal_is_valid, goal_value, goal_plan,
                   goal_read, gpc>>
    /\ UNCHANGED <<searchVars, schedVars, digVars, supplyVars, stageVars, simVars,
                   turnVars, ordVars, passVars, hashVars>>

\* The goal is scored: its _value becomes get_value_action_plan of its plan.
EvaluateGoal ==
    /\ gpc = "generated"
    /\ goal_value = NoValue
    /\ goal_value' = Value(get_value_action_plan(cur_goal, goal_plan, is_under_threath))
    /\ UNCHANGED <<cur_goal, is_under_threath, goal_is_valid, goal_plan, goal_cons,
                   parent_valid, goal_read, gpc>>
    /\ UNCHANGED <<searchVars, schedVars, digVars, supplyVars, stageVars, simVars,
                   turnVars, ordVars, passVars, hashVars>>

\* The property is_valid: raise ValueError if self._is_valid is None
ReadIsValid ==
    /\ gpc \in {"new", "generated"}
    /\ goal_read' = [prop |-> "is_valid", raised |-> goal_is_valid = "None",
                     result |-> goal_is_valid, at |-> gpc]
    /\ UNCHANGED <<cur_goal, is_under_threath, goal_is_valid, goal_value, goal_plan,
                   goal_cons, parent_valid, gpc>>
    /\ UNCHANGED <<searchVars, schedVars, digVars, supplyVars, stageVars, simVars,
                   turnVars, ordVars, passVars, hashVars>>

\* The property value: raise ValueError if self._value is None
ReadValue ==
    /\ gpc \in {"new", "generated"}
    /\ goal_read' = [prop |-> "value", raised |-> goal_value.is_none,
                     result |-> IF goal_value.is_none THEN "None" ELSE "Set", at |-> gpc]
    /\ UNCHANGED <<cur_goal, is_under_threath, goal_is_valid, goal_value, goal_plan,
                   goal_cons, parent_valid, gpc>>
    /\ UNCHANGED <<searchVars, schedVars, digVars, supplyVars, stageVars, simVars,
                   turnVars, ordVars, passVars, hashVars>>

\* A goal right after construction, with the Constraints it will be generated
\* against; an ActionQueueGoal is constructed with the plan in the queue.
InitGoal ==
    /\ SearchIdle
    /\ SchedIdle
    /\ DigIdle
    /\ SupplyIdle
    /\ StageIdle
    /\ SimIdle
    /\ TurnIdle
    /\ OrdIdle
    /\ PassIdle
    /\ HashIdle
    /\ cur_goal \in { GoalOf(type, "none") :
                        type \in (UnitGoalTypes \cup FactoryGoalTypes) \ {"ActionQueueGoal"} }
                    \cup { GoalOf("ActionQueueGoal", wrapped) :
                             wrapped \in {"CollectIceGoal", "CollectOreGoal",
                                          "ClearRubbleGoal", "FleeGoal"} }
    /\ is_under_threath \in (IF cur_goal.type \in UnitGoalTypes THEN BOOLEAN ELSE {FALSE})
    /\ goal_is_valid = class_is_valid(cur_goal.type)
    /\ goal_value = NoValue
    /\ goal_plan \in (IF cur_goal.type = "ActionQueueGoal"
                      THEN { plan \in UnitPlans : plan.actions # <<>> }
                      ELSE {Plan(<<>>, {}, 0)})
    /\ goal_cons \in GoalConstraintSets
    /\ parent_valid = "None"
    /\ goal_read = NoRead
    /\ gpc = "new"

NextGoal ==
    \/ GenerateActionPlan
    \/ ParentSolutionIsValid
    \/ EvaluateGoal
    \/ ReadIsValid
    \/ ReadValue

SpecGoal == InitGoal /\ [][NextGoal]_vars

\* ------------------------------------------------- the goals' claims

\* C11: the no-op goal of a unit and of a factory is always valid with value
\* zero: once generate_action_plan has run, under any Constraints, its
\* _is_valid is True, a read of is_valid does not raise and yields True, and
\* the value of its plan is 0.
C11_NoGoalIsValidWithValueZero ==
    (cur_goal.type \in {"UnitNoGoal", "FactoryNoGoal"} /\ gpc = "generated") =>
        /\ goal_is_valid = "True"
        /\ (goal_read.prop = "is_valid" /\ goal_read.at = "generated") =>
              (~goal_read.raised /\ goal_read.result = "True")
        /\ get_value_action_plan(cur_goal, goal_plan, is_under_threath) = 0
        /\ ~goal_value.is_none => goal_value.v = 0

\* The no-op goal of a unit was generated under constraints that forbid a
\* tile and set a power ceiling, scored, and its is_valid read.
C11_Witness ==
    /\ cur_goal.type = "UnitNoGoal"
    /\ gpc = "generated"
    /\ goal_cons.negative # {}
    /\ goal_cons.max_power_request = 0
    /\ goal_read.prop = "is_valid"
    /\ goal_read.at = "generated"
    /\ goal_read.result = "True"
    /\ goal_value = Value(0)

\* C12: for every goal type, a read of value or of is_valid before it was
\* computed (before generate_action_plan ran on the goal) raises.
C12_ReadBeforeComputedRaises ==
    (goal_read.prop # "none" /\ goal_read.at = "new") => goal_read.raised

\* The plan respects the constraints: none of its time-coordinates is
\* forbidden, and its requested power is within the ceiling if one is set.
plan_respects(plan, cons) ==
    /\ \A tc \in plan.time_coordinates : tc \notin cons.negative
    /\ cons.max_power_request # NoMaxPowerRequest =>
          plan.power_requested <= cons.max_power_request

\* C13: after the validity pass of a goal against a Constraints instance the
\* goal is valid if and only if its plan respects the constraints, for any
\* ceiling, 0 included: set_validity_plan of the factory goals, and
\* _parent_solution_is_valid of the unit goals.
C13_ValidIffPlanRespectsConstraints ==
    /\ (cur_goal.type \in {"BuildHeavyGoal", "BuildLightGoal", "WaterGoal"}
        /\ gpc = "generated") =>
          (goal_is_valid = "True" <=> plan_respects(goal_plan, goal_cons))
    /\ parent_valid # "None" =>
          (parent_valid = "True" <=> plan_respects(goal_plan, goal_cons))

\* C16: the ActionQueueGoal is valued -1000 when the unit is under threat and
\* the first queued action is stationary, and then a flee goal outranks it;
\* otherwise it is valued the wrapped goal's value of the plan plus 100000, and
\* outranks the flee goal and the no-op goal.
C16_ActionQueueGoalValue ==
    (cur_goal.type = "ActionQueueGoal" /\ ~goal_value.is_none) =>
        IF is_under_threath /\ is_stationary(goal_plan.actions[1])
        THEN /\ goal_value.v = -1000 * CostScale
             /\ plain_value_action_plan("FleeGoal", goal_plan) > goal_value.v
        ELSE /\ goal_value.v
                  = plain_value_action_plan(cur_goal.wrapped, goal_plan) + 100000 * CostScale
             /\ goal_value.v > plain_value_action_plan("FleeGoal", goal_plan)
             /\ goal_value.v > plain_value_action_plan("UnitNoGoal", goal_plan)

\* A threatened unit whose queue starts with a dig was scored.
C16_Witness ==
    /\ cur_goal = GoalOf("ActionQueueGoal", "CollectIceGoal")
    /\ is_under_threath
    /\ goal_plan.actions[1] = DigAction
    /\ goal_value = Value(-1000 * CostScale)

\* ------------------------------------------- the searches' bookkeeping

\* C14: at every point of a search no state whose time-coordinate is in the
\* forbidden set of the Constraints is in the frontier or in the cost-so-far
\* map (the start apart, which no successor generation put there), and no
\* state is held at an infinite cost.
C14_NoForbiddenStateInFrontier ==
    pc # "idle" =>
        /\ \A e \in frontier :
              e[2] # start => ~tc_violates_constraint(graph.constraints, e[2])
        /\ \A n \in DOMAIN cost_so_far :
              /\ n # start => ~tc_violates_constraint(graph.constraints, n)
              /\ cost_so_far[n] < Inf

\* ------------------------------------------- the scenarios of the tests

\* Whether a list of actions holds a wait: MoveAction(CENTER).
has_wait(actions) == \E k \in DOMAIN actions : actions[k] = MoveAction("CENTER")

\* C17: with the single forbidden state (3,2,t=1) the move-to search from
\* (2,2,t=0) to (5,2) on the empty board returns [wait, right, right, right];
\* a move-to graph with empty constraints does not offer the wait, so a path
\* returned under empty constraints holds none.
C17_WaitOnlyUnderConstraints ==
    /\ (graph = WaitNow.g /\ start = WaitNow.start /\ budget = DefaultBudget) =>
          /\ pc # "raised"
          /\ pc = "done" =>
                solution = <<MoveAction("CENTER"), MoveAction("RIGHT"), MoveAction("RIGHT"),
                             MoveAction("RIGHT")>>
    /\ (graph.variant = "MoveTo" /\ ~has_constraints(graph.constraints)) =>
          /\ MoveAction("CENTER") \notin SeqToSet(get_potential_actions(graph, start))
          /\ \A n \in DOMAIN cost_so_far :
                \A k \in DOMAIN get_valid_action_nodes(graph, n) :
                    get_valid_action_nodes(graph, n)[k][1] # MoveAction("CENTER")
          /\ pc = "done" => ~has_wait(solution)

\* The search of test_neg_constraint_wait_now returned a path with a wait.
C17_Witness ==
    /\ graph = WaitNow.g
    /\ pc = "done"
    /\ Len(solution) = 4
    /\ has_wait(solution)

\* C18: around the opponent base at (2,5) the move-to search from (1,3,t=0)
\* to (1,7) returns [left, down, down, down, down, right]; through an own base
\* there it returns four down moves; and no state of any returned path is on a
\* tile that is not valid for the player.
C18_PathAvoidsOpponentBase ==
    /\ (graph = AroundOpponentFactory.g /\ start = AroundOpponentFactory.start
        /\ budget = DefaultBudget) =>
          /\ pc # "raised"
          /\ pc = "done" =>
                solution = <<MoveAction("LEFT"), MoveAction("DOWN"), MoveAction("DOWN"),
                             MoveAction("DOWN"), MoveAction("DOWN"), MoveAction("RIGHT")>>
    /\ (graph = ThroughOwnFactory.g /\ start = ThroughOwnFactory.start
        /\ budget = DefaultBudget) =>
          /\ pc # "raised"
          /\ pc = "done" =>
                solution = <<MoveAction("DOWN"), MoveAction("DOWN"), MoveAction("DOWN"),
                             MoveAction("DOWN")>>
    /\ pc = "done" =>
          \A k \in DOMAIN solution :
              is_valid_c_for_player(graph.board, path_nodes(start, solution)[k])

\* The search of test_around_opponent_factory returned its six moves.
C18_Witness ==
    /\ graph = AroundOpponentFactory.g
    /\ pc = "done"
    /\ Len(solution) = 6
    /\ solution[1] = MoveAction("LEFT")

\* The column of the cost matrix with this key.
column_of(key) == CHOOSE c \in DOMAIN cost_matrix.columns : cost_matrix.columns[c] = key

FactoryPower == 1

\* The two tiles next to the base the units of the step move over.
SupplyTiles == {XY(0, 0), XY(1, 0)}

\* The plans a unit may come up with: a tile for every turn, and the power it
\* asks of the base in every turn.
UnitPlanChoices ==
    { UnitPlanInfo({ TC(f[t].x, f[t].y, t) : t \in SupplyTurns }, pr) :
        f \in [SupplyTurns -> SupplyTiles], pr \in [SupplyTurns -> 0..1] }

\* copy(x) of a Constraints or a PowerTracker: a new instance, the last of the
\* heap, with the content of instance id.
copy(heap, id) == Append(heap, heap[id])

\* Constraints.remove_negative_constraints and add_negative_constraints on the
\* forbidden set of one instance.
remove_negative_constraints(negative, tcs) == negative \ tcs

add_negative_constraints(negative, tcs) == negative \cup tcs

\* PowerTracker.remove_power_requests and add_power_requests on the requests
\* of one instance.
remove_power_requests(requests, pr) == [t \in DOMAIN requests |-> requests[t] - pr[t]]

add_power_requests(requests, pr) == [t \in DOMAIN requests |-> requests[t] + pr[t]]

\* The heaps and the schedule_info a helper leaves behind.
Heaps(ch, ph, info) == [constraints_heap |-> ch, power_tracker_heap |-> ph, info |-> info]

\* The heaps after copies of the two instances of info were made and the
\* plan's reservations removed from the copies (when remove holds), and the
\* schedule_info replace() builds on the copies.
copy_and_remove(ch, ph, info, plan, remove) ==
    LET ch1 == copy(ch, info.constraints)
        ph1 == copy(ph, info.power_tracker)
        c == Len(ch1)
        p == Len(ph1)
    IN  Heaps(IF remove
              THEN [ch1 EXCEPT ![c] = remove_negative_constraints(@, plan.time_coordinates)]
              ELSE ch1,
              IF remove
              THEN [ph1 EXCEPT ![p] = remove_power_requests(@, plan.power_requests)]
              ELSE ph1,
              ScheduleInfo(c, p))

\* Factory._get_schedule_info_without_unit_scheduled_actions
get_schedule_info_without_unit_scheduled_actions(ch, ph, info, unit) ==
    IF ~unit.is_scheduled THEN Heaps(ch, ph, info)
    ELSE copy_and_remove(ch, ph, info, unit.private_action_plan, TRUE)

\* Factory._get_schedule_info_without_units_on_dig_c, for the one unit of the
\* game state whose goal is a DigGoal on c.
get_schedule_info_without_units_on_dig_c(ch, ph, info, unit) ==
    copy_and_remove(ch, ph, info, unit.private_action_plan,
                    unit.is_scheduled /\ unit.private_action_plan # EmptyUnitPlan)

\* The supply round without lines 766-768: the receiving plan is not added to
\* anything before the supplying goal is generated. What C20 must tell apart
\* from the real round.
add_nothing(ch, ph, info, plan) == Heaps(ch, ph, info)

\* _schedule_supply_goal_and_reschedule_receiving_unit, lines 766-768: the
\* plan's time-coordinates and power requests are added, in place, to the
\* instances schedule_info refers to.
add_receiving_plan(ch, ph, info, plan) ==
    Heaps([ch EXCEPT ![info.constraints] = add_negative_constraints(@, plan.time_coordinates)],
          [ph EXCEPT ![info.power_tracker] = add_power_requests(@, plan.power_requests)],
          info)

\* The plans a unit can be given under the schedule_info: none of its
\* time-coordinates is forbidden and the base has the power it asks for.
valid_plans(ch, ph, info) ==
    { plan \in UnitPlanChoices :
        /\ plan.time_coordinates \cap ch[info.constraints] = {}
        /\ \A t \in SupplyTurns :
              ph[info.power_tracker][t] + plan.power_requests[t] <= FactoryPower }

\* schedule_info = self._get_schedule_info_without_unit_scheduled_actions(...)
GetScheduleInfoWithoutUnitScheduledActions ==
    /\ spc = "supply"
    /\ LET h == get_schedule_info_without_unit_scheduled_actions(
                    constraints_heap, power_tracker_heap, schedule_info, affected_unit)
       IN  /\ constraints_heap' = h.constraints_heap
           /\ power_tracker_heap' = h.power_tracker_heap
           /\ schedule_info' = h.info
    /\ spc' = "without_unit"
    /\ UNCHANGED <<caller_info, affected_unit, goal_receiving_unit, goal_supplying_unit>>
    /\ UNCHANGED <<searchVars, schedVars, digVars, goalVars, stageVars, simVars, turnVars, ordVars,
                   passVars, hashVars>>

\* goal_receiving_unit = self._reschedule_receiving_collect_goal(...)
RescheduleReceivingCollectGoal ==
    /\ spc = "without_unit"
    /\ IF valid_plans(constraints_heap, power_tracker_heap, schedule_info) = {}
       THEN /\ spc' = "raised"
            /\ UNCHANGED goal_receiving_unit
       ELSE /\ goal_receiving_unit' \in
                   valid_plans(constraints_heap, power_tracker_heap, schedule_info)
            /\ spc' = "rescheduled"
    /\ UNCHANGED <<constraints_heap, power_tracker_heap, caller_info, schedule_info,
                   affected_unit, goal_supplying_unit>>
    /\ UNCHANGED <<searchVars, schedVars, digVars, goalVars, stageVars, simVars, turnVars, ordVars,
                   passVars, hashVars>>

\* schedule_info.constraints.add_negative_constraints(tcs);
\* schedule_info.power_tracker.add_power_requests(...)
AddReceivingPlan ==
    /\ spc = "rescheduled"
    /\ LET h == add_receiving_plan(constraints_heap, power_tracker_heap, schedule_info,
                                   goal_receiving_unit)
       IN  /\ constraints_heap' = h.constraints_heap
           /\ power_tracker_heap' = h.power_tracker_heap
    /\ spc' = "added"
    /\ UNCHANGED <<caller_info, schedule_info, affected_unit, goal_receiving_unit,
                   goal_supplying_unit>>
    /\ UNCHANGED <<searchVars, schedVars, digVars, goalVars, stageVars, simVars, turnVars, ordVars,
                   passVars, hashVars>>

\* goal_supplying_unit = self._schedule_supply_goal(...); return both goals
ScheduleSupplyGoal ==
    /\ spc = "added"
    /\ IF valid_plans(constraints_heap, power_tracker_heap, schedule_info) = {}
       THEN /\ spc' = "raised"
            /\ UNCHANGED goal_supplying_unit
       ELSE /\ goal_supplying_unit' \in
                   valid_plans(constraints_heap, power_tracker_heap, schedule_info)
            /\ spc' = "supplied"
    /\ UNCHANGED <<constraints_heap, power_tracker_heap, caller_info, schedule_info,
                   affected_unit, goal_receiving_unit>>
    /\ UNCHANGED <<searchVars, schedVars, digVars, goalVars, stageVars, simVars, turnVars, ordVars,
                   passVars, hashVars>>

\* get_best_assignment for a DigGoal:
\* schedule_info = self._get_schedule_info_without_units_on_dig_c(goal.dig_c, schedule_info)
GetScheduleInfoWithoutUnitsOnDigC ==
    /\ spc = "dig"
    /\ LET h == get_schedule_info_without_units_on_dig_c(
                    constraints_heap, power_tracker_heap, schedule_info, affected_unit)
       IN  /\ constraints_heap' = h.constraints_heap
           /\ power_tracker_heap' = h.power_tracker_heap
           /\ schedule_info' = h.info
    /\ spc' = "without_units_on_dig_c"
    /\ UNCHANGED <<caller_info, affected_unit, goal_receiving_unit, goal_supplying_unit>>
    /\ UNCHANGED <<searchVars, schedVars, digVars, goalVars, stageVars, simVars, turnVars, ordVars,
                   passVars, hashVars>>

\* get_best_assignment: goal = unit.get_best_version_goal(goal, schedule_info)
GetBestVersionGoal ==
    /\ spc = "without_units_on_dig_c"
    /\ IF valid_plans(constraints_heap, power_tracker_heap, schedule_info) = {}
       THEN /\ spc' = "raised"
            /\ UNCHANGED goal_receiving_unit
       ELSE /\ goal_receiving_unit' \in
                   valid_plans(constraints_heap, power_tracker_heap, schedule_info)
            /\ spc' = "assigned"
    /\ UNCHANGED <<constraints_heap, power_tracker_heap, caller_info, schedule_info,
                   affected_unit, goal_supplying_unit>>
    /\ UNCHANGED <<searchVars, schedVars, digVars, goalVars, stageVars, simVars, turnVars, ordVars,
                   passVars, hashVars>>

\* What other units had reserved before the step: nothing, or a tile and the
\* base's power of the first turn.
OtherReservations ==
    {EmptyUnitPlan,
     UnitPlanInfo({TC(1, 0, 1)}, [t \in SupplyTurns |-> IF t = 1 THEN 1 ELSE 0])}

\* The plans the affected unit may hold from before the step.
PrivateActionPlans ==
    {EmptyUnitPlan}
    \cup { plan \in UnitPlanChoices :
             /\ \A tc \in plan.time_coordinates : tc.x = 0
             /\ \A t \in SupplyTurns : plan.power_requests[t] = 0 \/ t = MaxSupplyT }

\* A factory starts its supply round, or get_best_assignment starts on a dig
\* goal, with the caller's schedule_info: one Constraints and one PowerTracker
\* that hold what other units reserved, and the plan of the affected unit if
\* that unit is scheduled.
InitSupply ==
    /\ SearchIdle
    /\ SchedIdle
    /\ DigIdle
    /\ GoalIdle
    /\ StageIdle
    /\ SimIdle
    /\ TurnIdle
    /\ OrdIdle
    /\ PassIdle
    /\ HashIdle
    /\ spc \in {"supply", "dig"}
    /\ affected_unit \in [is_scheduled : BOOLEAN, private_action_plan : PrivateActionPlans]
    /\ spc = "supply" => affected_unit.private_action_plan # EmptyUnitPlan
    /\ \E other \in OtherReservations :
          LET own == IF affected_unit.is_scheduled THEN affected_unit.private_action_plan
                     ELSE EmptyUnitPlan
          IN  /\ constraints_heap =
                    <<add_negative_constraints(other.time_coordinates, own.time_coordinates)>>
              /\ power_tracker_heap =
                    <<add_power_requests(other.power_requests, own.power_requests)>>
    /\ caller_info = ScheduleInfo(1, 1)
    /\ schedule_info = caller_info
    /\ goal_receiving_unit = EmptyUnitPlan
    /\ goal_supplying_unit = EmptyUnitPlan

NextSupply ==
    \/ GetScheduleInfoWithoutUnitScheduledActions
    \/ RescheduleReceivingCollectGoal
    \/ AddReceivingPlan
    \/ ScheduleSupplyGoal
    \/ GetScheduleInfoWithoutUnitsOnDigC
    \/ GetBestVersionGoal

SpecSupply == InitSupply /\ [][NextSupply]_vars

\* C15: a scheduling step that retracts or alters earlier reservations leaves
\* the forbidden set and the power requests of the Constraints and PowerTracker
\* instances the caller's schedule_info holds unchanged, whether or not the
\* affected unit was already scheduled.
C15_CallerScheduleInfoUnchanged ==
    [][spc # "idle" =>
          /\ constraints_heap'[caller_info.constraints]
                = constraints_heap[caller_info.constraints]
          /\ power_tracker_heap'[caller_info.power_tracker]
                = power_tracker_heap[caller_info.power_tracker]]_vars

\* C20: in the supply round the supplying goal is generated against constraints
\* and a power tracker that already hold the receiving plan, so the supplying
\* plan shares no time-coordinate with the receiving plan and the two together
\* ask no more of the base in any turn than it has.
C20_SupplyPlanAfterReceivingPlanAdded ==
    spc = "supplied" =>
        /\ goal_receiving_unit.time_coordinates
              \subseteq constraints_heap[schedule_info.constraints]
        /\ \A t \in SupplyTurns :
              power_tracker_heap[schedule_info.power_tracker][t]
                 >= goal_receiving_unit.power_requests[t]
        /\ goal_supplying_unit.time_coordinates \cap goal_receiving_unit.time_coordinates = {}
        /\ \A t \in SupplyTurns :
              goal_receiving_unit.power_requests[t] + goal_supplying_unit.power_requests[t]
                 <= FactoryPower

\* Both goals were generated, and the receiving plan asks the base for power.
C20_Witness ==
    /\ spc = "supplied"
    /\ goal_receiving_unit.time_coordinates # {}
    /\ goal_supplying_unit.time_coordinates # {}
    /\ \E t \in SupplyTurns : goal_receiving_unit.power_requests[t] = 1

\* C23: a scored rubble-clearing goal is valued the floor (-10000000000, here
\* -20000000) whenever its plan holds no dig action, whatever else it holds,
\* and 100 * digs / (steps * time_to_power_cost + power used) otherwise.
C23_ClearRubbleValueFloorWithoutDigs ==
    (cur_goal.type = "ClearRubbleGoal" /\ ~goal_value.is_none) =>
        goal_value.v =
            IF nr_digs(goal_plan) = 0 THEN -20000000 * CostScale
            ELSE (100 * nr_digs(goal_plan) * CostScale) \div get_cost_plan(goal_plan, goal_unit)

\* --------------------- Factory.schedule_units and its stages (factory.py)

\* Most invaders and most strategies one call is given.
MaxInvaders == 2

MaxStrategies == 2

\* Strategy, the members the model uses.
StrategyNames == {"INCREASE_LICHEN", "COLLECT_ORE", "COLLECT_ICE"}

\* One entry of the record of stages called: the stage, what it was called
\* for (the id of the invader, the place of the strategy in the list, else 0)
\* and whether it returned a goal (ok) or raised.
Attempt(stage, arg, ok) == [stage |-> stage, arg |-> arg, ok |-> ok]

\* The goal a stage returned.
StageGoal(stage, arg) == [stage |-> stage, arg |-> arg]

\* The place of a stage in schedule_units.
stage_rank(stage) ==
    CASE stage = "hunt_invaders" -> 1
      [] stage = "supply" -> 2
      [] stage = "strategy" -> 3
      [] stage = "own_preference" -> 4

\* The supply round tried whenever a light unit is available, with or without
\* a heavy to supply: what C21 must tell apart from the guard of schedule_units.
supply_round_guard_light_only(heavy, light) == light

\* schedule_units: if self.has_heavy_unsupplied_collecting_next_to_factory and
\* self.has_light_unit_available
supply_round_guard(heavy, light) == heavy /\ light

\* _schedule_hunt_invader: the units that may hunt the invader, light ones for
\* a light invader and heavy ones else; get_best_assignment raises
\* NoValidGoalFoundError when there is none.
has_hunter(invader) == IF invader.is_light THEN light_available ELSE heavy_available

\* schedule_units: if self.sorted_threaths_invaders is empty, the hunt is skipped.
SkipHuntInvaders ==
    /\ upc = "start"
    /\ sorted_threaths_invaders = <<>>
    /\ upc' = "supply"
    /\ UNCHANGED <<sorted_threaths_invaders, hunted_opp_units, light_available,
                   heavy_available, heavy_unsupplied, strategies, strategy_i, attempted,
                   returned_goals>>
    /\ UNCHANGED <<searchVars, schedVars, digVars, goalVars, supplyVars, simVars,
                   turnVars, ordVars, passVars, hashVars>>

\* A hunt whose NoValidGoalFoundError leaves schedule_units: what C22 must tell
\* apart from the loop of _schedule_hunt_invaders.
ScheduleHuntInvaderPropagating ==
    /\ upc \in {"start", "hunt_invaders"}
    /\ sorted_threaths_invaders # <<>>
    /\ LET invader == sorted_threaths_invaders[Len(sorted_threaths_invaders)]
       IN  /\ sorted_threaths_invaders' =
                 SubSeq(sorted_threaths_invaders, 1, Len(sorted_threaths_invaders) - 1)
           /\ attempted' = Append(attempted, Attempt("hunt_invaders", invader.id, FALSE))
           /\ upc' = "failed"
    /\ UNCHANGED <<hunted_opp_units, light_available, heavy_available, heavy_unsupplied,
                   strategies, strategy_i, returned_goals>>
    /\ UNCHANGED <<searchVars, schedVars, digVars, goalVars, supplyVars, simVars,
                   turnVars, ordVars, passVars, hashVars>>

\* _schedule_hunt_invaders, one turn of its while loop: pop an invader, skip
\* it if it is hunted already, else return the goal of _schedule_hunt_invader
\* or go on with the next invader when that raises NoValidGoalFoundError.
ScheduleHuntInvader ==
    /\ upc \in {"start", "hunt_invaders"}
    /\ sorted_threaths_invaders # <<>>
    /\ LET invader == sorted_threaths_invaders[Len(sorted_threaths_invaders)]
       IN  /\ sorted_threaths_invaders' =
                 SubSeq(sorted_threaths_invaders, 1, Len(sorted_threaths_invaders) - 1)
           /\ IF invader.id \in hunted_opp_units
              THEN /\ upc' = "hunt_invaders"
                   /\ UNCHANGED <<attempted, returned_goals>>
              ELSE \E ok \in (IF has_hunter(invader) THEN BOOLEAN ELSE {FALSE}) :
                     /\ attempted' = Append(attempted, Attempt("hunt_invaders", invader.id, ok))
                     /\ IF ok
                        THEN /\ returned_goals' = <<StageGoal("hunt_invaders", invader.id)>>
                             /\ upc' = "returned"
                        ELSE /\ upc' = "hunt_invaders"
                             /\ UNCHANGED returned_goals
    /\ UNCHANGED <<hunted_opp_units, light_available, heavy_available, heavy_unsupplied,
                   strategies, strategy_i>>
    /\ UNCHANGED <<searchVars, schedVars, digVars, goalVars, supplyVars, simVars,
                   turnVars, ordVars, passVars, hashVars>>

\* _schedule_hunt_invaders: no invader is left, raise NoValidGoalFoundError;
\* schedule_units: except NoValidGoalFoundError: pass
HuntInvadersRaises ==
    /\ upc = "hunt_invaders"
    /\ sorted_threaths_invaders = <<>>
    /\ upc' = "supply"
    /\ UNCHANGED <<sorted_threaths_invaders, hunted_opp_units, light_available,
                   heavy_available, heavy_unsupplied, strategies, strategy_i, attempted,
                   returned_goals>>
    /\ UNCHANGED <<searchVars, schedVars, digVars, goalVars, supplyVars, simVars,
                   turnVars, ordVars, passVars, hashVars>>

\* schedule_units: the supply round is not tried.
SkipSupplyRound ==
    /\ upc = "supply"
    /\ ~supply_round_guard(heavy_unsupplied, light_available)
    /\ upc' = "strategies"
    /\ strategy_i' = 1
    /\ UNCHANGED <<sorted_threaths_invaders, hunted_opp_units, light_available,
                   heavy_available, heavy_unsupplied, strategies, attempted, returned_goals>>
    /\ UNCHANGED <<searchVars, schedVars, digVars, goalVars, supplyVars, simVars,
                   turnVars, ordVars, passVars, hashVars>>

\* schedule_units: return self._schedule_supply_goal_and_reschedule_receiving_unit(...),
\* except NoValidGoalFoundError: pass
SupplyRound ==
    /\ upc = "supply"
    /\ supply_round_guard(heavy_unsupplied, light_available)
    /\ \E ok \in BOOLEAN :
          /\ attempted' = Append(attempted, Attempt("supply", 0, ok))
          /\ IF ok
             THEN /\ returned_goals' = <<StageGoal("supply", 1), StageGoal("supply", 2)>>
                  /\ upc' = "returned"
                  /\ UNCHANGED strategy_i
             ELSE /\ upc' = "strategies"
                  /\ strategy_i' = 1
                  /\ UNCHANGED returned_goals
    /\ UNCHANGED <<sorted_threaths_invaders, hunted_opp_units, light_available,
                   heavy_available, heavy_unsupplied, strategies>>
    /\ UNCHANGED <<searchVars, schedVars, digVars, goalVars, supplyVars, simVars,
                   turnVars, ordVars, passVars, hashVars>>

\* schedule_units, one turn of for strategy in strategies: return the goal of
\* _schedule_unit_on_strategy, except NoValidGoalFoundError: continue
ScheduleUnitOnStrategy ==
    /\ upc = "strategies"
    /\ strategy_i <= Len(strategies)
    /\ \E ok \in BOOLEAN :
          /\ attempted' = Append(attempted, Attempt("strategy", strategy_i, ok))
          /\ IF ok
             THEN /\ returned_goals' = <<StageGoal("strategy", strategy_i)>>
                  /\ upc' = "returned"
                  /\ UNCHANGED strategy_i
             ELSE /\ strategy_i' = strategy_i + 1
                  /\ UNCHANGED <<returned_goals, upc>>
    /\ UNCHANGED <<sorted_threaths_invaders, hunted_opp_units, light_available,
                   heavy_available, heavy_unsupplied, strategies>>
    /\ UNCHANGED <<searchVars, schedVars, digVars, goalVars, supplyVars, simVars,
                   turnVars, ordVars, passVars, hashVars>>

\* schedule_units: return [self._schedule_first_unit_by_own_preference(...)];
\* next(self.available_units) raises StopIteration when no unit is available,
\* and nothing catches what the stage raises.
ScheduleFirstUnitByOwnPreference ==
    /\ upc = "strategies"
    /\ strategy_i > Len(strategies)
    /\ \E ok \in (IF light_available \/ heavy_available THEN BOOLEAN ELSE {FALSE}) :
          /\ attempted' = Append(attempted, Attempt("own_preference", 0, ok))
          /\ IF ok
             THEN /\ returned_goals' = <<StageGoal("own_preference", 0)>>
                  /\ upc' = "returned"
             ELSE /\ upc' = "failed"
                  /\ UNCHANGED returned_goals
    /\ UNCHANGED <<sorted_threaths_invaders, hunted_opp_units, light_available,
                   heavy_available, heavy_unsupplied, strategies, strategy_i>>
    /\ UNCHANGED <<searchVars, schedVars, digVars, goalVars, supplyVars, simVars,
                   turnVars, ordVars, passVars, hashVars>>

\* The lists of invaders a factory may hold: up to MaxInvaders, each once.
InvaderLists ==
    { s \in UNION { [1..n -> [id : 1..MaxInvaders, is_light : BOOLEAN]] : n \in 0..MaxInvaders } :
        \A i, j \in DOMAIN s : i # j => s[i].id # s[j].id }

\* schedule_units is called on a factory with these invaders and units, with
\* up to MaxStrategies strategies.
InitStages ==
    /\ SearchIdle
    /\ SchedIdle
    /\ DigIdle
    /\ GoalIdle
    /\ SupplyIdle
    /\ SimIdle
    /\ TurnIdle
    /\ OrdIdle
    /\ PassIdle
    /\ HashIdle
    /\ sorted_threaths_invaders \in InvaderLists
    /\ hunted_opp_units \in SUBSET (1..MaxInvaders)
    /\ light_available \in BOOLEAN
    /\ heavy_available \in BOOLEAN
    /\ heavy_unsupplied \in BOOLEAN
    /\ strategies \in UNION { [1..n -> StrategyNames] : n \in 0..MaxStrategies }
    /\ strategy_i = 0
    /\ attempted = <<>>
    /\ returned_goals = <<>>
    /\ upc = "start"

NextStages ==
    \/ SkipHuntInvaders
    \/ ScheduleHuntInvader
    \/ HuntInvadersRaises
    \/ SkipSupplyRound
    \/ SupplyRound
    \/ ScheduleUnitOnStrategy
    \/ ScheduleFirstUnitByOwnPreference

SpecStages == InitStages /\ [][NextStages]_vars

\* The strategies tried so far, in the order they were tried.
strategies_attempted ==
    LET tried == SelectSeq(attempted, LAMBDA a : a.stage = "strategy")
    IN  [k \in DOMAIN tried |-> strategies[tried[k].arg]]

\* C21: schedule_units tries its stages in the fixed order hunt, supply,
\* strategies as given, own preference; the hunt only for invaders it holds,
\* the supply round only when an unsupplied heavy and an available light
\* exist; the first stage that yields a goal returns it and nothing is tried
\* after it.
C21_StagesInFixedOrderFirstGoalReturns ==
    /\ \A i, j \in DOMAIN attempted :
          i < j => /\ stage_rank(attempted[i].stage) <= stage_rank(attempted[j].stage)
                   /\ ~attempted[i].ok
    /\ \A i \in DOMAIN attempted :
          /\ attempted[i].stage = "supply" => (heavy_unsupplied /\ light_available)
          /\ attempted[i].stage # "hunt_invaders" => sorted_threaths_invaders = <<>>
          /\ attempted[i].stage \in {"strategy", "own_preference"} =>
                ((heavy_unsupplied /\ light_available)
                    => \E j \in 1..(i - 1) : attempted[j].stage = "supply")
          /\ attempted[i].stage = "own_preference" => strategies_attempted = strategies
    /\ strategies_attempted = SubSeq(strategies, 1, Len(strategies_attempted))
    /\ \A i, j \in DOMAIN attempted :
          (i < j /\ attempted[i].stage = "strategy" /\ attempted[j].stage = "strategy")
              => attempted[i].arg < attempted[j].arg
    /\ upc = "returned" <=>
          (attempted # <<>> /\ attempted[Len(attempted)].ok /\ returned_goals # <<>>)
    /\ upc = "returned" =>
          returned_goals[1].stage = attempted[Len(attempted)].stage

\* The second strategy yielded the goal after the hunt, the supply round and
\* the first strategy raised.
C21_Witness ==
    /\ upc = "returned"
    /\ Len(attempted) = 4
    /\ attempted[1].stage = "hunt_invaders"
    /\ attempted[2].stage = "supply"
    /\ attempted[3].stage = "strategy"
    /\ attempted[4] = Attempt("strategy", 2, TRUE)

\* C22: a NoValidGoalFoundError of a hunt, of the supply round or of a strategy
\* never leaves schedule_units: the call fails only in its last stage, else it
\* returns at least one goal, and a failed hunt is followed by the hunt of the
\* remaining invaders and by the later stages.
C22_NoValidGoalNeverPropagates ==
    /\ upc = "failed" =>
          /\ attempted # <<>>
          /\ attempted[Len(attempted)].stage = "own_preference"
    /\ upc = "returned" => Len(returned_goals) >= 1
    /\ upc \in {"returned", "failed"} =>
          /\ \A i \in DOMAIN attempted :
                (~attempted[i].ok /\ attempted[i].stage # "own_preference")
                    => i < Len(attempted)
          /\ attempted[Len(attempted)].stage # "hunt_invaders" =>
                sorted_threaths_invaders = <<>>

\* Two hunts, the supply round and a strategy raised, and the last stage
\* returned a goal.
C22_Witness ==
    /\ upc = "returned"
    /\ Len(attempted) = 5
    /\ attempted[1] = Attempt("hunt_invaders", 2, FALSE)
    /\ attempted[2] = Attempt("hunt_invaders", 1, FALSE)
    /\ attempted[3].stage = "supply"
    /\ attempted[5] = Attempt("own_preference", 0, TRUE)

\* ------ ActionPlanSimulator (lux_bots/agent/objects/action_plan.py)

\* Most primitive actions a plan has before its last digs, most digs it ends
\* with, most moves from its end to the closest factory.
MaxSimPrefix == 2

MaxSimDigs == 3

MaxPathToFactory == 2

\* is_valid_size: len(self) <= 20
MaxPlanSize == 20

\* EnvConfig.CYCLE_LENGTH and DAY_LENGTH
CYCLE_LENGTH == 50

DAY_LENGTH == 30

\* unit.unit_cfg of the simulated unit.
sim_cfg(unit) == [UnitCfg(unit.unit_type) EXCEPT !.BATTERY_CAPACITY = unit.BATTERY_CAPACITY]

\* GameState.is_day(t): `if not t: t = self.real_env_steps`, so t = 0 is the
\* current step and every other t is taken as a step of the game.
is_day(res, t) == (IF t = 0 THEN res ELSE t) % CYCLE_LENGTH < DAY_LENGTH

\* Action.get_power_change on a board without rubble: a move costs MOVE_COST,
\* a dig DIG_COST, a pickup brings its amount, staying costs nothing.
get_power_change(cfg, a) ==
    CASE a.kind = "dig" -> -cfg.DIG_COST
      [] a.kind = "pickup" -> a.amount
      [] a.kind = "move" -> IF is_stationary(a) THEN 0 ELSE -cfg.MOVE_COST
      [] OTHER -> 0

\* A simulator for which every action brings the power it costs: what C25 must
\* tell apart from _carry_out_action.
carry_out_action_gains(cfg, power, a) ==
    Min2(power + Abs(get_power_change(cfg, a)), cfg.BATTERY_CAPACITY)

\* ActionPlanSimulator._carry_out_action: cur_power after the action.
carry_out_action(cfg, power, a) ==
    Min2(power + get_power_change(cfg, a), cfg.BATTERY_CAPACITY)

\* ActionPlanSimulator._simul_charge: cur_power after the charge of turn t.
simul_charge(cfg, res, t, power) == IF is_day(res, t) THEN power + cfg.CHARGE ELSE power

\* ActionPlanSimulator.can_update_action_queue
can_update_action_queue(cfg, power) == power >= cfg.ACTION_QUEUE_POWER_COST

\* The simulator between two actions: cur_power, t and whether ValueError
\* ("Power is below 0") was raised.
SimState(power, t, error) == [cur_power |-> power, t |-> t, error |-> error]

\* ActionPlanSimulator._simulate_actions from state st.
RECURSIVE simulate_actions(_, _, _, _)
simulate_actions(cfg, res, st, actions) ==
    IF actions = <<>> \/ st.error THEN st
    ELSE LET power == carry_out_action(cfg, st.cur_power, Head(actions))
         IN  IF power < 0 THEN SimState(power, st.t, TRUE)
             ELSE simulate_actions(cfg, res,
                      SimState(simul_charge(cfg, res, st.t, power), st.t + 1, FALSE),
                      Tail(actions))

\* ActionPlanSimulator.simulate_action_plan: _init_start, _update_action_queue,
\* _simulate_actions over the primitive actions.
simulate_action_plan(unit, res, actions) ==
    simulate_actions(sim_cfg(unit), res,
                     SimState(unit.power - sim_cfg(unit).ACTION_QUEUE_POWER_COST, 0, FALSE),
                     actions)

\* ActionPlanCondenser.condense, by its length: equal neighbours count once.
condensed_length(actions) ==
    Cardinality({ i \in DOMAIN actions : i = 1 \/ actions[i] # actions[i - 1] })

\* ActionPlan.is_valid_size
is_valid_size(actions) == condensed_length(actions) <= MaxPlanSize

\* ActionPlan.unit_has_enough_power
unit_has_enough_power(unit, res, actions) ==
    LET st == simulate_action_plan(unit, res, actions)
    IN  ~st.error /\ can_update_action_queue(sim_cfg(unit), st.cur_power)

\* ActionPlan.unit_can_carry_out_plan
unit_can_carry_out_plan(unit, res, actions) ==
    is_valid_size(actions) /\ unit_has_enough_power(unit, res, actions)

\* ActionPlan.unit_can_reach_factory_after_action_plan, with the moves to the
\* closest factory tile the search returns.
unit_can_reach_factory_after_action_plan(unit, res, actions, path) ==
    LET st == simulate_action_plan(unit, res, actions)
        go == simulate_actions(sim_cfg(unit), res,
                  SimState(st.cur_power - sim_cfg(unit).ACTION_QUEUE_POWER_COST, st.t, FALSE),
                  path)
    IN  ~st.error /\ ~go.error /\ can_update_action_queue(sim_cfg(unit), go.cur_power)

\* The plan prefix followed by n dig actions.
with_digs(prefix, n) == prefix \o [i \in 1..n |-> DigAction]

\* unit_can_carry_out_plan: is_valid_size is False, the simulator is not run.
IsValidSizeFails ==
    /\ mpc = "start"
    /\ sim_check = "carry_out_plan"
    /\ ~is_valid_size(with_digs(sim_prefix, sim_digs))
    /\ sim_result' = "False"
    /\ mpc' = "done"
    /\ UNCHANGED <<sim_unit, real_env_steps, sim_check, sim_prefix, sim_digs,
                   actions_to_factory, sim_actions, sim_i, cur_power, sim_t>>
    /\ UNCHANGED <<searchVars, schedVars, digVars, goalVars, supplyVars, stageVars,
                   turnVars, ordVars, passVars, hashVars>>

\* simulate_action_plan: _init_start and _update_action_queue
SimulateActionPlan ==
    /\ mpc = "start"
    /\ sim_check = "carry_out_plan" => is_valid_size(with_digs(sim_prefix, sim_digs))
    /\ cur_power' = sim_unit.power - sim_cfg(sim_unit).ACTION_QUEUE_POWER_COST
    /\ sim_t' = 0
    /\ sim_actions' = with_digs(sim_prefix, sim_digs)
    /\ sim_i' = 1
    /\ mpc' = "simulate_plan"
    /\ UNCHANGED <<sim_unit, real_env_steps, sim_check, sim_prefix, sim_digs,
                   actions_to_factory, sim_result>>
    /\ UNCHANGED <<searchVars, schedVars, digVars, goalVars, supplyVars, stageVars,
                   turnVars, ordVars, passVars, hashVars>>

\* _simulate_actions, one turn of its loop: _carry_out_action, the ValueError
\* when cur_power < 0 (the check returns False), else _simul_charge and t += 1
SimulateAction ==
    /\ mpc \in {"simulate_plan", "simulate_path"}
    /\ sim_i <= Len(sim_actions)
    /\ LET power == carry_out_action(sim_cfg(sim_unit), cur_power, sim_actions[sim_i])
       IN  IF power < 0
           THEN /\ cur_power' = power
                /\ sim_result' = "False"
                /\ mpc' = "done"
                /\ UNCHANGED <<sim_i, sim_t>>
           ELSE /\ cur_power' = simul_charge(sim_cfg(sim_unit), real_env_steps, sim_t, power)
                /\ sim_t' = sim_t + 1
                /\ sim_i' = sim_i + 1
                /\ UNCHANGED <<sim_result, mpc>>
    /\ UNCHANGED <<sim_unit, real_env_steps, sim_check, sim_prefix, sim_digs,
                   actions_to_factory, sim_actions>>
    /\ UNCHANGED <<searchVars, schedVars, digVars, goalVars, supplyVars, stageVars,
                   turnVars, ordVars, passVars, hashVars>>

\* simulate_action_plan_go_to_closest_factory: _update_action_queue, then the
\* moves to the closest factory tile are simulated
SimulateGoToClosestFactory ==
    /\ mpc = "simulate_plan"
    /\ sim_i > Len(sim_actions)
    /\ sim_check = "reach_factory"
    /\ cur_power' = cur_power - sim_cfg(sim_unit).ACTION_QUEUE_POWER_COST
    /\ sim_actions' = actions_to_factory
    /\ sim_i' = 1
    /\ mpc' = "simulate_path"
    /\ UNCHANGED <<sim_unit, real_env_steps, sim_check, sim_prefix, sim_digs,
                   actions_to_factory, sim_t, sim_result>>
    /\ UNCHANGED <<searchVars, schedVars, digVars, goalVars, supplyVars, stageVars,
                   turnVars, ordVars, passVars, hashVars>>

\* return simulator.can_update_action_queue()
CanUpdateActionQueue ==
    /\ \/ mpc = "simulate_plan" /\ sim_check = "carry_out_plan"
       \/ mpc = "simulate_path"
    /\ sim_i > Len(sim_actions)
    /\ sim_result' = Bool(can_update_action_queue(sim_cfg(sim_unit), cur_power))
    /\ mpc' = "done"
    /\ UNCHANGED <<sim_unit, real_env_steps, sim_check, sim_prefix, sim_digs,
                   actions_to_factory, sim_actions, sim_i, cur_power, sim_t>>
    /\ UNCHANGED <<searchVars, schedVars, digVars, goalVars, supplyVars, stageVars,
                   turnVars, ordVars, passVars, hashVars>>

\* The simulated units: light ones with the battery of the game and with a
\* small one, and heavy ones, at powers around the costs and at a full battery.
SimUnits ==
    { [unit_type |-> "LIGHT", power |-> p, BATTERY_CAPACITY |-> 150] :
        p \in {0, 1, 6, 7, 12, 150} }
    \cup { [unit_type |-> "LIGHT", power |-> p, BATTERY_CAPACITY |-> 6] : p \in {2, 5, 6} }
    \cup { [unit_type |-> "HEAVY", power |-> p, BATTERY_CAPACITY |-> 3000] : p \in {70, 3000} }

\* The steps of the game the simulation starts at: in the day, at its last
\* steps, in the night.
SimSteps == {0, 28, 29, 30, 49}

\* A plan of MaxPlanSize + 1 moves, none equal to the one before.
LongPlan ==
    [i \in 1..(MaxPlanSize + 1) |-> IF i % 2 = 1 THEN MoveAction("RIGHT") ELSE MoveAction("LEFT")]

\* The plans before the digs.
SimPrefixes ==
    UNION { [1..n -> {MoveAction("CENTER"), MoveAction("RIGHT"), PickupAction(10)}] :
            n \in 0..MaxSimPrefix }
    \cup {LongPlan}

\* A check of a plan starts: unit_can_carry_out_plan, or
\* unit_can_reach_factory_after_action_plan with the moves to the factory.
InitSim ==
    /\ SearchIdle
    /\ SchedIdle
    /\ DigIdle
    /\ GoalIdle
    /\ SupplyIdle
    /\ StageIdle
    /\ TurnIdle
    /\ OrdIdle
    /\ PassIdle
    /\ HashIdle
    /\ sim_unit \in SimUnits
    /\ real_env_steps \in SimSteps
    /\ sim_check \in {"carry_out_plan", "reach_factory"}
    /\ sim_prefix \in SimPrefixes
    /\ sim_digs \in 0..MaxSimDigs
    /\ actions_to_factory \in
          (IF sim_check = "reach_factory"
           THEN { [i \in 1..n |-> MoveAction("LEFT")] : n \in 0..MaxPathToFactory }
           ELSE {<<>>})
    /\ sim_actions = <<>>
    /\ sim_i = 0
    /\ cur_power = 0
    /\ sim_t = 0
    /\ sim_result = "None"
    /\ mpc = "start"

NextSim ==
    \/ IsValidSizeFails
    \/ SimulateActionPlan
    \/ SimulateAction
    \/ SimulateGoToClosestFactory
    \/ CanUpdateActionQueue

SpecSim == InitSim /\ [][NextSim]_vars

\* The plan a run checks.
sim_plan == with_digs(sim_prefix, sim_digs)

\* C24: a plan unit_can_carry_out_plan accepts has at most 20 actions, and in
\* its simulation from the unit's power minus the queue-update cost the power
\* is never negative, never above BATTERY_CAPACITY after any step, the daytime
\* recharge included, and at the end covers one queue-update cost.
C24_AcceptedPlanKeepsPowerInRange ==
    (sim_check = "carry_out_plan" /\ mpc = "done" /\ sim_result = "True") =>
        /\ condensed_length(sim_plan) <= MaxPlanSize
        /\ \A n \in 1..Len(sim_plan) :
              LET st == simulate_action_plan(sim_unit, real_env_steps, SubSeq(sim_plan, 1, n))
              IN  /\ ~st.error
                  /\ st.cur_power >= 0
                  /\ st.cur_power <= sim_unit.BATTERY_CAPACITY
        /\ cur_power >= sim_cfg(sim_unit).ACTION_QUEUE_POWER_COST

\* The check a run makes, for the plan prefix followed by n digs.
check_holds(n) ==
    IF sim_check = "carry_out_plan"
    THEN unit_can_carry_out_plan(sim_unit, real_env_steps, with_digs(sim_prefix, n))
    ELSE unit_can_reach_factory_after_action_plan(sim_unit, real_env_steps,
                                                  with_digs(sim_prefix, n), actions_to_factory)

\* C25: acceptance by the simulator and can-still-reach-a-factory are
\* non-increasing in the number of digs appended to a plan: a check that
\* returned True for the plan with its digs holds for the plan with fewer.
C25_ChecksNonIncreasingInDigs ==
    (mpc = "done" /\ sim_result \in {"True", "False"}) =>
        /\ sim_result = Bool(check_holds(sim_digs))
        /\ sim_result = "True" => \A j \in 0..sim_digs : check_holds(j)
        /\ sim_result = "False" => \A k \in sim_digs..MaxSimDigs : ~check_holds(k)

\* A unit that starts in the night was found able to dig twice and still
\* reach the factory, by a margin of less than a dig.
C25_Witness ==
    /\ mpc = "done"
    /\ sim_check = "reach_factory"
    /\ sim_result = "True"
    /\ sim_digs = 2
    /\ real_env_steps = 30
    /\ Len(actions_to_factory) = 2
    /\ cur_power < sim_cfg(sim_unit).DIG_COST

\* ------------------------------------------- the start of a flee path

\* C26: every path the flee search returns has a first action that is not
\* stationary and does not end on the pursuing unit's tile, and a second
\* action that does not end on the tile the fleeing unit started from; from
\* the second turn after the start on the flee graph offers every move of the
\* graph again.
C26_FleePathStartRestrictions ==
    (graph.variant = "OldFleeTo" /\ pc # "new") =>
        /\ pc = "done" =>
              /\ Len(solution) >= 1 =>
                    /\ ~is_stationary(solution[1])
                    /\ get_final_c(solution[1], start) # graph.opp_c
              /\ Len(solution) >= 2 =>
                    get_final_c(solution[2], add_action(start, solution[1]))
                        # XY(start.x, start.y)
        /\ \A n \in DOMAIN cost_so_far :
              n.t > graph.start_c.t + 1 =>
                  old_potential_actions(graph, n) = old_move_actions(graph)

\* A flee search returned a path of two or more actions to its goal although
\* the pursuer stands between the start and the goal, and it expanded states
\* past the second turn.
C26_Witness ==
    /\ graph.variant = "OldFleeTo"
    /\ pc = "done"
    /\ Len(solution) >= 2
    /\ old_node_completes_goal(graph, end_node(start, solution))
    /\ distance_to(graph.opp_c, graph.goal) < distance_to(start, graph.goal)
    /\ \E n \in DOMAIN cost_so_far : n.t > graph.start_c.t + 1

\* ------------------------------------------- the evade search

\* The node one stationary move after a node.
stay_put(node) == add_action(node, MoveAction("CENTER"))

\* C27: the goal test of the evade graph holds in a state exactly when the
\* state one stationary move later is not forbidden; a path the evade search
\* returns ends in a state from which staying put for one more turn is not
\* forbidden, and no state the path visits is forbidden.
C27_EvadeEndsWhereStayingIsAllowed ==
    (graph.variant = "Evade" /\ pc # "new") =>
        /\ \A n \in DOMAIN cost_so_far :
              node_completes_goal(graph, n)
                  <=> ~tc_violates_constraint(graph.constraints, stay_put(n))
        /\ pc = "done" =>
              /\ final_node = end_node(start, solution)
              /\ ~tc_violates_constraint(graph.constraints, stay_put(final_node))
              /\ \A k \in DOMAIN solution :
                    ~tc_violates_constraint(graph.constraints,
                                            path_nodes(start, solution)[k])

\* An evade search that could not stay where it started returned a path.
C27_Witness ==
    /\ graph.variant = "Evade"
    /\ pc = "done"
    /\ Len(solution) >= 1
    /\ tc_violates_constraint(graph.constraints, stay_put(start))
    /\ \E k \in DOMAIN MovesAll :
          /\ is_valid_c_for_player(graph.board, add_action(start, MovesAll[k]))
          /\ tc_violates_constraint(graph.constraints, add_action(start, MovesAll[k]))
          /\ MovesAll[k] # MoveAction("CENTER")

\* ------------------------------------------- the pickup-power graph

\* The pickup actions a graph offers in a node.
offered_pickups(g, n) == { a \in SeqToSet(get_potential_actions(g, n)) : a.kind = "pickup" }

\* C28: a pickup action the pickup-power graph offers in the state the search
\* expands is offered on an own base tile, and its amount is strictly
\* positive, at most the battery space left in that state, at most the power
\* the ledger of the base reports, and at most the ceiling of 3000.
C28_OfferedPickupPositiveAndCapped ==
    (graph.variant = "PickupPower" /\ pc = "loop" /\ iter > 0) =>
        \A a \in offered_pickups(graph, current_node) :
            /\ is_player_factory_tile(graph.board, current_node)
            /\ a.amount > 0
            /\ a.amount <= UnitCfg(graph.unit_type).BATTERY_CAPACITY - current_node.p
            /\ a.amount <= graph.board.power_available
            /\ a.amount <= 3000

\* ------------------------------------------- the transfer graphs

TransferVariants == {"TransferPowerToUnit", "TransferToFactory"}

\* Whether a node is next to the tile that receives: at distance exactly 1 of
\* the receiving unit, at distance at most 1 of an own base, or of the base
\* given to the graph.
adjacent_to_receiver(g, n) ==
    IF g.variant = "TransferPowerToUnit" THEN distance_to(n, g.goal) = 1
    ELSE IF g.factory = {} THEN get_min_distance_to_any_player_factory(g.board, n) <= 1
    ELSE \E f \in g.factory : distance_to(n, f) <= 1

\* Whether a list of actions holds a transfer.
has_transfer(actions) == \E k \in DOMAIN actions : actions[k].kind = "transfer"

\* C29: a transfer graph offers a transfer action in the state the search
\* expands only when that state is adjacent to the receiving tile; a state the
\* search generated passes the goal test only if a transfer action lies on the
\* way to it; and every transfer action of a returned path is taken from a
\* state adjacent to the receiving tile.
C29_TransferOnlyWhenAdjacent ==
    (graph.variant \in TransferVariants /\ pc # "new") =>
        /\ (pc = "loop" /\ iter > 0) =>
              \A a \in SeqToSet(get_potential_actions(graph, current_node)) :
                  a.kind = "transfer" => adjacent_to_receiver(graph, current_node)
        /\ \A n \in DOMAIN cost_so_far :
              node_completes_goal(graph, n) => has_transfer(get_solution_actions(came_from, n))
        /\ pc = "done" =>
              /\ has_transfer(solution)
              /\ \A k \in DOMAIN solution :
                    solution[k].kind = "transfer" =>
                        adjacent_to_receiver(graph,
                            IF k = 1 THEN start ELSE path_nodes(start, solution)[k - 1])

\* A transfer search that started away from the receiving tile returned a
\* path that walks there and then transfers.
C29_Witness ==
    /\ graph.variant \in TransferVariants
    /\ pc = "done"
    /\ Len(solution) >= 2
    /\ ~adjacent_to_receiver(graph, start)
    /\ solution[Len(solution)].kind = "transfer"

\* The tile a transfer action taken in a node points to.
transfer_target(n, a) == XY(n.x + DirDelta(a.dir).x, n.y + DirDelta(a.dir).y)

\* C30: when a receiving base is given to the transfer-to-base graph, every
\* transfer action the graph offers in the state the search expands points
\* from that state's tile to a tile of the given base.
C30_TransferPointsToGivenBase ==
    (graph.variant = "TransferToFactory" /\ graph.factory # {} /\ pc = "loop" /\ iter > 0) =>
        \A a \in SeqToSet(get_potential_actions(graph, current_node)) :
            a.kind = "transfer" => transfer_target(current_node, a) \in graph.factory

\* ------------------------------------------- the dig-at search

\* The node a path stands on before its k-th action.
node_before(c, actions, k) == IF k = 1 THEN c ELSE path_nodes(c, actions)[k - 1]

\* Whether a node is on the goal tile of the graph.
on_goal_tile(g, n) == g.goal.x = n.x /\ g.goal.y = n.y

\* C31: a path the dig-at search returns for the goal (tile, N) from a start
\* without digs holds exactly N dig actions, each taken on the goal tile, and
\* ends on the goal tile; a move leaves the dig count of the state as it was.
C31_DigPathHasExactlyNDigsOnGoalTile ==
    (graph.variant = "DigAt" /\ pc = "done") =>
        /\ get_nr_digs_in_actions(solution) = graph.goal_d - start.d
        /\ on_goal_tile(graph, end_node(start, solution))
        /\ end_node(start, solution).d = graph.goal_d
        /\ \A k \in DOMAIN solution :
              /\ solution[k].kind = "dig" =>
                    on_goal_tile(graph, node_before(start, solution, k))
              /\ solution[k].kind = "move" =>
                    path_nodes(start, solution)[k].d = node_before(start, solution, k).d

\* The search of test_neg_constraint_at_second_dig_possibility returned the
\* path of the test: a dig, a step off the tile and back, two more digs.
C31_Witness ==
    /\ graph = DigSecondPossibility.g
    /\ start = DigSecondPossibility.start
    /\ pc = "done"
    /\ solution = <<MoveAction("RIGHT"), MoveAction("RIGHT"), MoveAction("RIGHT"), DigAction,
                    MoveAction("LEFT"), MoveAction("RIGHT"), DigAction, DigAction>>

\* ------------------------------------------- the dig-at graph and its horizon

\* Whether the time horizon of the constraints is set and reached in a node.
horizon_reached(cons, n) == has_time_constraints(cons) /\ cons.max_t <= n.t

\* C32: in the state the older dig-at search expands the dig action is offered
\* only on the goal tile; on the goal tile at or past a set time horizon max_t
\* the dig action is the only action offered; on the goal tile before the
\* horizon, or without one, the moves of the graph and the dig are offered.
C32_DigOnlyOnGoalTileAndAloneAtHorizon ==
    (graph.variant = "OldDigAt" /\ pc = "loop" /\ iter > 0) =>
        LET acts == old_potential_actions(graph, current_node)
        IN  /\ DigAction \in SeqToSet(acts) => on_goal_tile(graph, current_node)
            /\ (on_goal_tile(graph, current_node)
                /\ horizon_reached(graph.constraints, current_node)) =>
                  acts = <<DigAction>>
            /\ (on_goal_tile(graph, current_node)
                /\ ~horizon_reached(graph.constraints, current_node)) =>
                  /\ DigAction \in SeqToSet(acts)
                  /\ SeqToSet(old_move_actions(graph)) \subseteq SeqToSet(acts)

\* The older dig-at search expanded a state on the goal tile past the horizon,
\* and had expanded the start on the goal tile before it.
C32_Witness ==
    /\ graph.variant = "OldDigAt"
    /\ pc = "loop"
    /\ iter > 0
    /\ on_goal_tile(graph, current_node)
    /\ horizon_reached(graph.constraints, current_node)
    /\ on_goal_tile(graph, start)
    /\ ~horizon_reached(graph.constraints, start)

\* ------------------------------------------- successors and danger cost

\* The (action, next node) pairs of a node whose next node is valid for the
\* player and not forbidden by the constraints.
allowed_action_nodes(g, c) ==
    LET pot == get_potential_actions(g, c)
    IN  { <<pot[i], add_action(c, pot[i])>> : i \in
            { k \in DOMAIN pot :
                /\ is_valid_c_for_player(g.board, add_action(c, pot[k]))
                /\ ~tc_violates_constraint(g.constraints, add_action(c, pot[k])) } }

\* C33: for every graph variant the successors of the state the search expands
\* are exactly the candidate actions whose next state is valid for the player
\* and not forbidden; a next state that only carries a danger cost of the
\* constraints is among them, and its danger cost is part of the step cost.
C33_SuccessorsExcludeOnlyForbidden ==
    (pc = "loop" /\ iter > 0) =>
        /\ SeqToSet(get_valid_action_nodes(graph, current_node))
              = allowed_action_nodes(graph, current_node)
        /\ \A an \in allowed_action_nodes(graph, current_node) :
              get_cost(graph, an[1], an[2])
                  >= get_power_cost(graph, an[1], an[2])
                     + graph.time_to_power_cost * CostScale
                     + get_danger_cost(graph.constraints, an[2], is_stationary(an[1]))

\* ------------------------ Agent.get_unit_actions over consecutive turns

\* The units of game_state.player_units, in list order 1..MaxTurnUnits.
MaxTurnUnits == 2

\* Turns the agent is called.
MaxTurns == 3

\* Longest action plan a goal has.
MaxQueue == 3

TurnUnits == 1..MaxTurnUnits

\* unit.has_actions_in_queue
has_actions_in_queue(queue, u) == queue[u] > 0

\* The goal collections unit.generate_goals may hand back: one or two goals
\* with different keys, each with a value.
GeneratedCollections ==
    { << <<k, v>> >> : k \in {"a", "b"}, v \in {5, 7} }
    \cup { << <<k1, v1>>, <<k2, v2>> >> :
             k1 \in {"a"}, k2 \in {"b"}, v1 \in {5, 7}, v2 \in {5, 7} }
    \cup { << <<k1, v1>>, <<k2, v2>> >> :
             k1 \in {"b"}, k2 \in {"a"}, v1 \in {5}, v2 \in {7} }

\* prev_steps_goals after the for loop has passed the units before `upto`:
\* del self.prev_steps_goals[unit.unit_id] for each unit without a queue.
prev_after_loop(prev, queue, upto) ==
    [u \in { w \in DOMAIN prev : ~(w < upto /\ w \in TurnUnits /\ ~has_actions_in_queue(queue, w)) }
        |-> prev[u]]

\* The list unit_goal_collections: the singleton of the previous goal with
\* value 1_000_000 for a unit with a queue, the generated collection otherwise.
turn_goal_collections(prev, queue, generated) ==
    [u \in TurnUnits |->
        IF has_actions_in_queue(queue, u)
        THEN << <<prev[u], ContinueValue>> >>
        ELSE generated[u]]

\* The units and the keys of resolved.
goal_units(ug) == { ug[k][1] : k \in DOMAIN ug }
goal_of(ug, u) == ug[CHOOSE k \in DOMAIN ug : ug[k][1] = u][2]

\* A unit with actions in its queue has no entry in prev_steps_goals.
lookup_fails(prev, queue) ==
    { u \in TurnUnits : has_actions_in_queue(queue, u) /\ u \notin DOMAIN prev }

\* The units the loop generates goals for.
replanned(queue) == { u \in TurnUnits : ~has_actions_in_queue(queue, u) }

\* One call of get_unit_actions that returns: the loop over the units,
\* resolve_goal_conflicts, the actions sent, _update_prev_step_goals. (With
\* goal collections that are not empty and at most two units, the cost matrix
\* is never infeasible: a unit with a queue holds a key no second such unit
\* holds.)
GetUnitActions ==
    /\ tpc = "agent"
    /\ lookup_fails(prev_steps_goals, action_queue) = {}
    /\ \E generated \in [replanned(action_queue) -> GeneratedCollections],
          plan_len \in [replanned(action_queue) -> 0..MaxQueue] :
          LET ugc == turn_goal_collections(prev_steps_goals, action_queue, generated)
              cm == create_cost_matrix(ugc)
              kept == prev_after_loop(prev_steps_goals, action_queue, MaxTurnUnits + 1)
          IN  \E rc \in linear_sum_assignment(cm) :
                LET resolved == get_unit_goals(ugc, solve_sum_assigment_problem(cm, rc))
                    actions(u) == IF has_actions_in_queue(action_queue, u)
                                  THEN action_queue[u] ELSE plan_len[u]
                    unit_actions == { u \in goal_units(resolved) :
                                        u \notin DOMAIN kept /\ actions(u) > 0 }
                IN  /\ queued_at_start' = { u \in TurnUnits : has_actions_in_queue(action_queue, u) }
                    /\ committed' = goal_units(resolved)
                    /\ sent' = unit_actions
                    /\ prev_steps_goals' = [u \in goal_units(resolved) |-> goal_of(resolved, u)]
                    /\ action_queue' = [u \in TurnUnits |->
                                          IF u \in unit_actions THEN actions(u) ELSE action_queue[u]]
    /\ tpc' = "env"
    /\ UNCHANGED turn
    /\ UNCHANGED <<searchVars, schedVars, digVars, goalVars, supplyVars, stageVars, simVars,
                   ordVars, passVars, hashVars>>

\* One call of get_unit_actions that raises KeyError at
\* self.prev_steps_goals[unit.unit_id]: the loop stops at the first unit with
\* a queue and without an entry.
GetUnitActionsKeyError ==
    /\ tpc = "agent"
    /\ lookup_fails(prev_steps_goals, action_queue) # {}
    /\ LET u == SetMin(lookup_fails(prev_steps_goals, action_queue))
       IN  /\ prev_steps_goals' = prev_after_loop(prev_steps_goals, action_queue, u)
           /\ queued_at_start' = { w \in TurnUnits : has_actions_in_queue(action_queue, w) }
    /\ tpc' = "KeyError"
    /\ UNCHANGED <<action_queue, committed, sent, turn>>
    /\ UNCHANGED <<searchVars, schedVars, digVars, goalVars, supplyVars, stageVars, simVars,
                   ordVars, passVars, hashVars>>

\* The game carries out one step: every unit with a queue executes its first
\* action, which leaves the queue.
EnvStep ==
    /\ tpc = "env"
    /\ turn < MaxTurns
    /\ action_queue' = [u \in TurnUnits |-> IF action_queue[u] > 0 THEN action_queue[u] - 1 ELSE 0]
    /\ turn' = turn + 1
    /\ tpc' = "agent"
    /\ UNCHANGED <<prev_steps_goals, queued_at_start, committed, sent>>
    /\ UNCHANGED <<searchVars, schedVars, digVars, goalVars, supplyVars, stageVars, simVars,
                   ordVars, passVars, hashVars>>

\* A new Agent: prev_steps_goals = dict(); the units have empty queues.
InitTurns ==
    /\ prev_steps_goals = <<>>
    /\ action_queue = [u \in TurnUnits |-> 0]
    /\ queued_at_start = {}
    /\ committed = {}
    /\ sent = {}
    /\ turn = 0
    /\ tpc = "agent"
    /\ SearchIdle
    /\ SchedIdle
    /\ DigIdle
    /\ GoalIdle
    /\ SupplyIdle
    /\ StageIdle
    /\ SimIdle
    /\ OrdIdle
    /\ PassIdle
    /\ HashIdle

NextTurns ==
    \/ GetUnitActions
    \/ GetUnitActionsKeyError
    \/ EnvStep

SpecTurns == InitTurns /\ [][NextTurns]_vars

\* C34: over consecutive turns, the lookup of the previous goal of a unit with
\* a queue never fails; such a unit is sent no actions in that turn; and after
\* a turn prev_steps_goals holds exactly the units committed a goal in it, so
\* the old entry of a replanned unit is gone.
C34_QueueUnitsKeepTheirEntry ==
    /\ tpc # "KeyError"
    /\ tpc = "env" =>
          /\ sent \cap queued_at_start = {}
          /\ DOMAIN prev_steps_goals = committed

\* ------------------------------------------- the order of TimeCoordinates

\* Largest x, y and t of the TimeCoordinates compared.
MaxCoord == 2

\* TimeCoordinate.__lt__: return self.t < other.t
tc_lt(a, b) == a.t < b.t

\* An order by the tuple (x, y, t).
tc_lt_by_xyt(a, b) ==
    \/ a.x < b.x
    \/ a.x = b.x /\ a.y < b.y
    \/ a.x = b.x /\ a.y = b.y /\ a.t < b.t

\* The __eq__ that dataclass(eq=True) generates: the fields (x, y, t) as tuples.
tc_eq(a, b) == <<a.x, a.y, a.t>> = <<b.x, b.y, b.t>>

\* a < b, b < a and a == b are evaluated.
Compare ==
    /\ opc = "new"
    /\ a_lt_b' = IF tc_lt(tc_a, tc_b) THEN "True" ELSE "False"
    /\ b_lt_a' = IF tc_lt(tc_b, tc_a) THEN "True" ELSE "False"
    /\ a_eq_b' = IF tc_eq(tc_a, tc_b) THEN "True" ELSE "False"
    /\ opc' = "compared"
    /\ UNCHANGED <<tc_a, tc_b>>
    /\ UNCHANGED <<searchVars, schedVars, digVars, goalVars, supplyVars, stageVars, simVars,
                   turnVars, passVars, hashVars>>

TimeCoordinates == { TC(x, y, t) : x \in 0..MaxCoord, y \in 0..MaxCoord, t \in 0..MaxCoord }

\* Any two TimeCoordinates, not yet compared.
InitOrd ==
    /\ tc_a \in TimeCoordinates
    /\ tc_b \in TimeCoordinates
    /\ a_lt_b = "None"
    /\ b_lt_a = "None"
    /\ a_eq_b = "None"
    /\ opc = "new"
    /\ SearchIdle
    /\ SchedIdle
    /\ DigIdle
    /\ GoalIdle
    /\ SupplyIdle
    /\ StageIdle
    /\ SimIdle
    /\ TurnIdle
    /\ PassIdle
    /\ HashIdle

NextOrd == Compare

SpecOrd == InitOrd /\ [][NextOrd]_vars

\* C35: the order on TimeCoordinates is the order by (x, y, t), and for any two
\* TimeCoordinates a and b exactly one of a < b, b < a and a == b holds.
C35_OrderByXYTIsTotal ==
    opc = "compared" =>
        /\ (a_lt_b = "True") <=> tc_lt_by_xyt(tc_a, tc_b)
        /\ \/ a_lt_b = "True" /\ b_lt_a = "False" /\ a_eq_b = "False"
           \/ a_lt_b = "False" /\ b_lt_a = "True" /\ a_eq_b = "False"
           \/ a_lt_b = "False" /\ b_lt_a = "False" /\ a_eq_b = "True"

\* ------------------------------------------- termination of the search

\* The frontier.pop() calls made so far: one per expanded node, and the one
\* that popped the goal node.
pops == IF pc \in {"found", "done"} THEN iter + 1 ELSE iter

\* The steps a call has left at most: a natural number that is 0 once the
\* call has returned or raised.
steps_left ==
    CASE pc = "new" -> budget + 5
      [] pc = "loop" -> budget + 3 - iter
      [] pc = "found" -> 1
      [] OTHER -> 0

\* The guard of some action of the search holds: the call can take a step.
can_step ==
    \/ pc = "new"
    \/ pc = "found"
    \/ /\ pc = "loop"
       /\ \/ loop_raises(frontier, iter, budget) # "none"
          \/ \E e \in PopCandidates(frontier) : e[2] \in DOMAIN cost_so_far

\* C36: for every budget b the search ends, by returning or by raising, after
\* at most b + 1 nodes were popped from the frontier, also when a stationary
\* move is always possible and no goal node can be reached: at most b + 1
\* nodes are ever popped, a call that has not ended can take a step, and
\* every step lowers the natural number steps_left.
C36_TerminatesWithinBudget ==
    /\ [](pops <= budget + 1)
    /\ [](steps_left >= 0)
    /\ [](pc \notin {"done", "raised"} => can_step)
    /\ [][steps_left' < steps_left]_vars

\* A stationary move is among the successors of the node.
can_wait(g, n) ==
    LET ans == get_valid_action_nodes(g, n)
    IN  \E k \in DOMAIN ans : ans[k][2] = stay_put(n)

C36_Witness ==
    /\ pc = "raised"
    /\ outcome = "SolutionNotFoundWithinBudgetError"
    /\ budget = MaxBudget
    /\ pops = budget + 1
    /\ graph.variant = "MoveTo"
    /\ \A n \in DOMAIN cost_so_far :
          /\ can_wait(graph, n)
          /\ ~node_completes_goal(graph, n)
    /\ ~cheaper_path_exists(graph, start, Inf, MaxPathLen)

\* ------------------------------------------- the predecessor map

\* The node a predecessor chain ends in: came_from is followed from node for
\* at most `fuel` entries.
RECURSIVE chain_end(_, _, _)
chain_end(cf, node, fuel) ==
    IF node \notin DOMAIN cf \/ fuel = 0 THEN node
    ELSE chain_end(cf, cf[node][2], fuel - 1)

\* The fields of came_from and cost_so_far at one point of a search.
predecessors_lead_back ==
    /\ start \notin DOMAIN came_from
    /\ \A n \in DOMAIN came_from :
          /\ came_from[n][2].t < n.t
          /\ n = add_action(came_from[n][2], came_from[n][1])
          /\ chain_end(came_from, n, n.t) = start
          /\ get_cost(graph, came_from[n][1], n) > 0
          /\ n \in DOMAIN cost_so_far
          /\ came_from[n][2] \in DOMAIN cost_so_far

MaxPassUnits == 3

\* Rounds (calls of schedule_units) in one pass.
MaxRounds == 3

\* Longest plan a goal gives a unit.
MaxPlanLen == 2

PassUnits == 1..MaxPassUnits

\* One assignment a round returned.
Assignment(stage, role, unit, held) == [stage |-> stage, role |-> role, unit |-> unit, held |-> held]

\* Factory.available_units without the test of the private action plan: what
\* C38 must tell apart from the real property.
available_in_pass_ignoring_plans(units) ==
    { u \in DOMAIN units : units[u].can_update_action_queue /\ units[u].can_be_assigned }

\* Factory.available_units: unit.can_update_action_queue and not
\* unit.private_action_plan and unit.can_be_assigned
available_in_pass(units) ==
    { u \in DOMAIN units :
        /\ units[u].can_update_action_queue
        /\ units[u].plan_len = 0
        /\ units[u].can_be_assigned }

\* Factory.heavy_available_units, light_available_units
heavy_available_in_pass(units) == { u \in available_in_pass(units) : units[u].is_heavy }

light_available_in_pass(units) == { u \in available_in_pass(units) : ~units[u].is_heavy }

\* Factory.heavy_units_unsupplied_collecting_next_to_factory
heavy_units_unsupplied_collecting_next_to_factory(units) ==
    { u \in DOMAIN units :
        /\ units[u].is_heavy
        /\ units[u].goal = "collect_next_to_factory"
        /\ ~units[u].supplied_by }

\* The goal a round returned is taken up by its unit: the unit holds the plan
\* and the goal.
take_up(units, u, goal, len) == [units EXCEPT ![u].plan_len = len, ![u].goal = goal]

\* A round whose goal comes from _schedule_hunt_invader: the hunter is one of
\* the light available units for a light invader, of the heavy ones else.
HuntRound ==
    /\ ppc = "pass"
    /\ round < MaxRounds
    /\ \E invader_is_light \in BOOLEAN :
          \E u \in (IF invader_is_light THEN light_available_in_pass(pass_units)
                    ELSE heavy_available_in_pass(pass_units)), len \in 1..MaxPlanLen :
             /\ assignments' = Append(assignments,
                   Assignment("hunt_invaders", "hunter", u, pass_units[u].plan_len > 0))
             /\ pass_units' = take_up(pass_units, u, "hunt", len)
    /\ round' = round + 1
    /\ UNCHANGED ppc
    /\ UNCHANGED <<searchVars, schedVars, digVars, goalVars, supplyVars, stageVars, simVars,
                   turnVars, ordVars, hashVars>>

\* A round whose goals come from _schedule_supply_goal_and_reschedule_receiving_unit:
\* the supplying unit is a light available unit, the receiving unit an
\* unsupplied heavy that collects next to the factory and is given its collect
\* goal anew.
SupplyRoundOfPass ==
    /\ ppc = "pass"
    /\ round < MaxRounds
    /\ \E s \in light_available_in_pass(pass_units),
          r \in heavy_units_unsupplied_collecting_next_to_factory(pass_units),
          len_s \in 1..MaxPlanLen, len_r \in 1..MaxPlanLen :
             /\ assignments' = assignments \o
                   << Assignment("supply", "receiving", r, pass_units[r].plan_len > 0),
                      Assignment("supply", "supplying", s, pass_units[s].plan_len > 0) >>
             /\ pass_units' =
                   [take_up(take_up(pass_units, r, "collect_next_to_factory", len_r),
                            s, "supply", len_s) EXCEPT ![r].supplied_by = TRUE]
    /\ round' = round + 1
    /\ UNCHANGED ppc
    /\ UNCHANGED <<searchVars, schedVars, digVars, goalVars, supplyVars, stageVars, simVars,
                   turnVars, ordVars, hashVars>>

\* A round whose goal comes from _schedule_unit_on_strategy: the strategy
\* draws its units from available_units, the light or the heavy ones.
StrategyRound ==
    /\ ppc = "pass"
    /\ round < MaxRounds
    /\ \E units \in {available_in_pass(pass_units), light_available_in_pass(pass_units),
                     heavy_available_in_pass(pass_units)} :
          \E u \in units, len \in 1..MaxPlanLen,
             goal \in {"collect_next_to_factory", "collect", "clear_rubble"} :
             /\ assignments' = Append(assignments,
                   Assignment("strategy", "unit", u, pass_units[u].plan_len > 0))
             /\ pass_units' = take_up(pass_units, u, goal, len)
    /\ round' = round + 1
    /\ UNCHANGED ppc
    /\ UNCHANGED <<searchVars, schedVars, digVars, goalVars, supplyVars, stageVars, simVars,
                   turnVars, ordVars, hashVars>>

\* A round whose goal comes from _schedule_first_unit_by_own_preference:
\* unit = next(self.available_units); its best goal or one of its dummy goals,
\* whose plan may be empty.
OwnPreferenceRound ==
    /\ ppc = "pass"
    /\ round < MaxRounds
    /\ \E u \in available_in_pass(pass_units), len \in 0..MaxPlanLen :
          /\ assignments' = Append(assignments,
                Assignment("own_preference", "unit", u, pass_units[u].plan_len > 0))
          /\ pass_units' = take_up(pass_units, u, IF len = 0 THEN "no_goal" ELSE "own", len)
    /\ round' = round + 1
    /\ UNCHANGED ppc
    /\ UNCHANGED <<searchVars, schedVars, digVars, goalVars, supplyVars, stageVars, simVars,
                   turnVars, ordVars, hashVars>>

\* The units at the start of a pass: heavy or light, with or without a plan
\* and a collect goal from an earlier turn.
InitialUnits ==
    [PassUnits -> { un \in [is_heavy : BOOLEAN, can_update_action_queue : BOOLEAN,
                            can_be_assigned : {TRUE}, plan_len : {0, MaxPlanLen},
                            goal : {"none", "collect_next_to_factory"},
                            supplied_by : {FALSE}] :
                      /\ (un.goal # "none") => (un.plan_len > 0 /\ un.is_heavy)
                      /\ (un.plan_len > 0) => (un.goal # "none") }]

InitPass ==
    /\ pass_units \in InitialUnits
    /\ assignments = <<>>
    /\ round = 0
    /\ ppc = "pass"
    /\ SearchIdle
    /\ SchedIdle
    /\ DigIdle
    /\ GoalIdle
    /\ SupplyIdle
    /\ StageIdle
    /\ SimIdle
    /\ TurnIdle
    /\ OrdIdle
    /\ HashIdle

NextPass ==
    \/ HuntRound
    \/ SupplyRoundOfPass
    \/ StrategyRound
    \/ OwnPreferenceRound

SpecPass == InitPass /\ [][NextPass]_vars

\* The assignments of the pass so far that gave the unit a non-empty plan
\* before the k-th.
plans_given_before(u, k) ==
    { j \in 1..(k - 1) : assignments[j].unit = u }

\* C38: within one pass a unit that holds a non-empty private action plan is
\* never the assignee of a hunt, of a strategy or of the fallback round, nor
\* the supplying unit; the only assignee that holds a plan, and the only unit
\* given a plan after it took up a non-empty one in the pass, is the receiving
\* heavy of a supply round.
C38_OnlyReceivingHeavyGetsSecondPlan ==
    \A k \in DOMAIN assignments :
        LET a == assignments[k]
        IN  /\ a.stage \in {"hunt_invaders", "strategy", "own_preference"} => ~a.held
            /\ a.held => (a.stage = "supply" /\ a.role = "receiving"
                          /\ pass_units[a.unit].is_heavy)
            /\ (\E j \in plans_given_before(a.unit, k) :
                   assignments[j].stage # "own_preference" \/ a.held)
                  => (a.stage = "supply" /\ a.role = "receiving")

\* A heavy was put on a collect goal by a strategy and given that goal anew,
\* as the receiving unit, by a later supply round of the same pass.
C38_Witness ==
    /\ Len(assignments) = 3
    /\ assignments[1].stage = "strategy"
    /\ ~assignments[1].held
    /\ assignments[2] = Assignment("supply", "receiving", assignments[1].unit, TRUE)
    /\ assignments[3].stage = "supply"
    /\ ~assignments[3].held

\* --------------------- UnitGoal.generate_action_plan and its solution_hash

\* Calls of generate_action_plan one goal is followed through.
MaxCalls == 4

\* The keys of the Constraints the goal is called with: "k0" is Constraints()
\* and the parent of "k1", which is the parent of "k2".
ConstraintKeys == {"k0", "k1", "k2"}

\* A Constraints instance as generate_action_plan reads it: parent and content.
KeyedConstraints(parent, cons) == [parent |-> parent, cons |-> cons]

\* A plan object: which _generate_action_plan call built it, and what it
\* occupies and requests.
HashPlan(id, plan) == [id |-> id, plan |-> plan]

NoHashPlan == HashPlan(0, Plan(<<>>, {}, 0))

\* The plans _generate_action_plan may build here: with or without a pickup
\* of 100 power, staying or moving onto (1, 1) at t = 1 or t = 2.
HashPlans ==
    { UnitPlan(pickup, actions) :
        pickup \in BOOLEAN, actions \in {<<>>, <<MoveAction("RIGHT")>>} }

\* One entry of the record of calls.
Call(key, had_key, parent_plan, searched, returned) ==
    [key |-> key, had_key |-> had_key, parent_plan |-> parent_plan, searched |-> searched,
     returned |-> returned]

\* self.solution_hash[constraints.parent] when the parent is a key of the
\* hash, else no plan.
parent_solution(hash, kc) ==
    IF kc.parent \in DOMAIN hash THEN hash[kc.parent] ELSE NoHashPlan

\* generate_action_plan(game_state, constraints): the plan of the key if the
\* hash holds one; else the parent's plan if the hash holds one and it is
\* valid under the constraints, stored under the key; else the plan
\* _generate_action_plan builds, stored under the key.
GenerateActionPlanCall ==
    /\ hpc = "goal"
    /\ Len(calls) < MaxCalls
    /\ \E key \in ConstraintKeys :
          LET kc == constraints_of[key]
              from_parent == parent_solution(solution_hash, kc)
          IN  IF key \in DOMAIN solution_hash
              THEN /\ calls' = Append(calls, Call(key, TRUE, from_parent, FALSE,
                                                  solution_hash[key]))
                   /\ UNCHANGED <<solution_hash, nr_generated>>
              ELSE IF /\ kc.parent \in DOMAIN solution_hash
                      /\ parent_solution_is_valid(from_parent.plan, kc.cons)
                   THEN /\ solution_hash' = PutFcn(solution_hash, key, from_parent)
                        /\ calls' = Append(calls, Call(key, FALSE, from_parent, FALSE,
                                                       from_parent))
                        /\ UNCHANGED nr_generated
                   ELSE \E plan \in HashPlans :
                           LET action_plan == HashPlan(nr_generated + 1, plan)
                           IN  /\ solution_hash' = PutFcn(solution_hash, key, action_plan)
                               /\ calls' = Append(calls, Call(key, FALSE, from_parent, TRUE,
                                                              action_plan))
                               /\ nr_generated' = nr_generated + 1
    /\ UNCHANGED <<constraints_of, hpc>>
    /\ UNCHANGED <<searchVars, schedVars, digVars, goalVars, supplyVars, stageVars, simVars,
                   turnVars, ordVars, passVars>>

\* A new goal with an empty solution_hash, and the Constraints it will be
\* called with: Constraints() and two generations of children.
InitHash ==
    /\ \E c1 \in GoalConstraintSets, c2 \in GoalConstraintSets :
          constraints_of =
              [key \in ConstraintKeys |->
                  CASE key = "k0" ->
                          KeyedConstraints("None", Constraints({}, {}, 0, NoMaxPowerRequest))
                    [] key = "k1" -> KeyedConstraints("k0", c1)
                    [] key = "k2" -> KeyedConstraints("k1", c2)]
    /\ solution_hash = EmptyFcn
    /\ calls = <<>>
    /\ nr_generated = 0
    /\ hpc = "goal"
    /\ SearchIdle
    /\ SchedIdle
    /\ DigIdle
    /\ GoalIdle
    /\ SupplyIdle
    /\ StageIdle
    /\ SimIdle
    /\ TurnIdle
    /\ OrdIdle
    /\ PassIdle

NextHash == GenerateActionPlanCall

SpecHash == InitHash /\ [][NextHash]_vars

\* The plan is allowed under the constraints: none of its time-coordinates is
\* forbidden, and what it requests is within the ceiling, if there is one.
allowed_under(plan, cons) ==
    /\ plan.time_coordinates \cap cons.negative = {}
    /\ cons.max_power_request = NoMaxPowerRequest
          \/ plan.power_requested <= cons.max_power_request

\* C39: a call with a key the goal was called with before returns the very
\* plan the earlier call returned and builds none; a call with a new key
\* returns the plan held for the parent key exactly when there is one and it
\* is allowed under the constraints of the call, and builds a new plan
\* otherwise.
C39_SameKeySamePlanParentPlanOnlyIfAllowed ==
    \A j \in DOMAIN calls :
        LET c == calls[j]
            cons == constraints_of[c.key].cons
        IN  /\ \A i \in 1..(j - 1) :
                  calls[i].key = c.key
                     => (c.returned = calls[i].returned /\ ~c.searched /\ c.had_key)
            /\ c.had_key => \E i \in 1..(j - 1) : calls[i].key = c.key
            /\ ~c.had_key =>
                  IF c.parent_plan # NoHashPlan /\ allowed_under(c.parent_plan.plan, cons)
                  THEN c.returned = c.parent_plan /\ ~c.searched
                  ELSE /\ c.searched
                       /\ c.returned.id > 0
                       /\ \A i \in 1..(j - 1) : calls[i].returned.id < c.returned.id

\* The parent's plan was taken over by the first child and turned down by the
\* second, whose ceiling it exceeds; a later call with the first child's key
\* got the same plan again.
C39_Witness ==
    /\ Len(calls) = 4
    /\ calls[1].key = "k0" /\ calls[1].searched
    /\ calls[2].key = "k1" /\ ~calls[2].searched /\ calls[2].returned = calls[1].returned
    /\ calls[2].returned.plan.power_requested = 100
    /\ calls[3].key = "k2" /\ calls[3].searched /\ calls[3].parent_plan = calls[1].returned
    /\ constraints_of["k2"].cons.negative = {}
    /\ constraints_of["k2"].cons.max_power_request = 50
    /\ calls[4].key = "k1" /\ calls[4].had_key /\ calls[4].returned = calls[1].returned

\* ------------------------------------------- day and night in the simulator

\* The charge of a step that depends on the step index alone.
charge_by_index(cfg, t) == IF t % CYCLE_LENGTH < DAY_LENGTH THEN cfg.CHARGE ELSE 0

\* C40: is_day(t) of an explicitly passed step index t >= 0, 0 included, is
\* (t mod CYCLE_LENGTH) < DAY_LENGTH: the charge the simulator adds after the
\* action of its step t depends on t alone, not on the current step of the
\* game.
C40_SimulatedChargeDependsOnStepIndexOnly ==
    [][sim_t' = sim_t + 1 =>
          cur_power' = carry_out_action(sim_cfg(sim_unit), cur_power, sim_actions[sim_i])
                       + charge_by_index(sim_cfg(sim_unit), sim_t)]_vars

====
